---- MODULE Spec2Model ----
(***************************************************************************)
(* Model of the CLT same-day trip tools:                                   *)
(*   - update_all_pricing.py : nearest-time matcher, the three pricing     *)
(*     adapters, the per-destination update and the orchestrating loop;    *)
(*   - find_same_day_trips.py: flight filters and the trip pairing step.   *)
(* Clock times are pairs <<hour, minute>>, datetimes are minutes counted   *)
(* from midnight of the search date, prices are whole dollars.             *)
(***************************************************************************)
EXTENDS Integers, Sequences, FiniteSets, TLC

VARIABLES
    \* ---- nearest-time matcher (find_flight_by_time) ----
    m_pc,        \* "start" before the call, "done" after it returned
    m_offers,    \* offers['data']: sequence of offer records
    m_target,    \* target_time "HH:MM" as <<hour, minute>>
    m_window,    \* max_time_diff_minutes
    m_best,      \* the locals best_match_price / best_match_diff / best_is_direct
    m_result,    \* the returned value
    \* ---- trip pairing (find_same_day_trips_for_destination) ----
    t_pc,        \* "start" before the call, "done" after it returned
    t_outbound,  \* what search_flights returns for origin -> destination
    t_return,    \* what search_flights returns for destination -> origin
    t_min_ground,\* min_ground_time, in minutes (hours * 60)
    trips,       \* the returned list of trips
    \* ---- pricing run (main and update_pricing_for_trip) ----
    pc,          \* position in main / update_pricing_for_trip
    args,        \* skip_cash, skip_awards, skip_turo, apify_token (given or not)
    amadeus_token, \* TRUE once get_amadeus_token returned a token
    award_driver,  \* TRUE once the browser was started
    df,          \* the dataframe: one row (column -> value) per destination
    output_file, \* the rows last written by to_excel, <<>> before the first write
    idx,         \* loop index of main, 1-based
    updates,     \* the dict updates of update_pricing_for_trip
    status_parts,\* the list status_parts
    cash_out,    \* local cash_out, kept from the outbound to the return call
    award_out,   \* local award_out
    last_call,   \* history: the adapter call made last and how it ended
    called,      \* history: per destination, the adapter calls made
    outcome,     \* history: per destination, how its iteration ended
    \* ---- car-rental adapter (fetch_turo_pricing) ----
    tu_pc,       \* "start" before the call, "done" after it returned
    tu_job,      \* what the job service answers: start, status polls, dataset
    tu_result,   \* the returned value with the polls and dataset fetches made
    \* ---- award matcher (find_matching_flight) ----
    a_pc,        \* "start" before the call, "done" after it returned
    a_flights,   \* the flights of scrape_flight_page, sorted by departure
    a_target,    \* depart_time_target "HH:MM" as <<hour, minute>>
    a_result,    \* the returned flight or None
    \* ---- ranking (main of find_same_day_trips.py) ----
    r_pc,        \* "start" before the ranking, "done" after it
    all_trips,   \* the trips of all destinations, in the order emitted
    r_df,        \* the ranked dataframe: one record per row
    \* ---- text normalizers (city label, cabin label, mile cost) ----
    n_pc,        \* "start" before the call, "done" after it
    n_kind,      \* which text is normalized: "city", "cabin" or "miles"
    n_input,     \* the text
    n_output     \* what the code makes of it

mvars == <<m_pc, m_offers, m_target, m_window, m_best, m_result>>
tvars == <<t_pc, t_outbound, t_return, t_min_ground, trips>>

ovars == <<pc, args, amadeus_token, award_driver, df, output_file, idx, updates,
           status_parts, cash_out, award_out, last_call, called, outcome>>

uvars == <<tu_pc, tu_job, tu_result>>
avars == <<a_pc, a_flights, a_target, a_result>>

rvars == <<r_pc, all_trips, r_df>>
nvars == <<n_pc, n_kind, n_input, n_output>>

vars == <<mvars, tvars, ovars, uvars, avars, rvars, nvars>>

(***************************************************************************)
(* Python values.  A cell or local holds None, a number or a string; the   *)
(* truth value of each is Python's (None, 0 and "" are false).             *)
(***************************************************************************)
None == [k |-> "none"]
Num(x) == [k |-> "num", n |-> x]
Str(x) == [k |-> "str", s |-> x]
Dict(d) == [k |-> "dict", d |-> d]
Truthy(v) == CASE v.k = "none" -> FALSE
               [] v.k = "num" -> v.n # 0
               [] v.k = "str" -> v.s # ""
               [] OTHER -> TRUE

Abs(x) == IF x < 0 THEN -x ELSE x

\* float('inf'): larger than every difference of two minutes of a day
Inf == 99999

\* "HH:MM" -> hour * 60 + minute
ClockMinutes(t) == t[1] * 60 + t[2]

(***************************************************************************)
(* Bounds and input sets of the matcher.                                   *)
(***************************************************************************)
MaxOffers == 2

DefaultWindow == 60
AwardWindow == 30

MatchTargets == {<<6, 0>>, <<6, 30>>}
MatchDepartures == {<<5, 0>>, <<5, 50>>, <<6, 10>>, <<6, 40>>, <<7, 0>>, <<7, 1>>}
MatchPrices == {90, 120}
MatchWindows == {AwardWindow, DefaultWindow}

\* an Amadeus offer as far as the matcher reads it: departure of the first
\* segment, number of segments of the first itinerary, price.total
MatchOffers == [dep : MatchDepartures, segments : {1, 2}, price : MatchPrices]

SeqsUpTo(S, n) == UNION {[1..k -> S] : k \in 0..n}

(***************************************************************************)
(* find_flight_by_time                                                     *)
(***************************************************************************)
NoMatch == [price |-> None, diff |-> Inf, is_direct |-> FALSE]

\* lines 119-121 without clause (1) ordering: the cheaper offer always wins
BetterMatchCheapest(diff, is_direct, price, best) ==
    \/ best.price = None
    \/ price < best.price.n

\* lines 119-121 without the direct-flight clause
BetterMatchNoDirect(diff, is_direct, price, best) ==
    \/ diff < best.diff
    \/ (diff = best.diff /\ is_direct = best.is_direct /\ price < best.price.n)

\* lines 119-121 without the price clause
BetterMatchNoPrice(diff, is_direct, price, best) ==
    \/ diff < best.diff
    \/ (diff = best.diff /\ is_direct /\ ~best.is_direct)

\* the update condition of the loop body
BetterMatch(diff, is_direct, price, best) ==
    \/ diff < best.diff
    \/ (diff = best.diff /\ is_direct /\ ~best.is_direct)
    \/ (diff = best.diff /\ is_direct = best.is_direct /\ price < best.price.n)

\* one iteration of the loop over offers['data']
MatchOffer(offer, target_minutes, max_time_diff_minutes, best) ==
    LET dep_minutes == ClockMinutes(offer.dep)
        diff == Abs(dep_minutes - target_minutes)
        is_direct == (offer.segments = 1)
        price == offer.price
    IN  IF diff <= max_time_diff_minutes
           /\ BetterMatch(diff, is_direct, price, best)
        THEN [price |-> Num(price), diff |-> diff, is_direct |-> is_direct]
        ELSE best

RECURSIVE MatchLoop(_, _, _, _, _)
MatchLoop(offers, i, target_minutes, max_time_diff_minutes, best) ==
    IF i > Len(offers) THEN best
    ELSE MatchLoop(offers, i + 1, target_minutes, max_time_diff_minutes,
                   MatchOffer(offers[i], target_minutes, max_time_diff_minutes, best))

\* the locals when the loop has ended
find_flight_by_time_locals(offers, target_time, max_time_diff_minutes) ==
    MatchLoop(offers, 1, ClockMinutes(target_time), max_time_diff_minutes, NoMatch)

find_flight_by_time(offers, target_time, max_time_diff_minutes) ==
    find_flight_by_time_locals(offers, target_time, max_time_diff_minutes).price



MatchIdle ==
    /\ m_pc = "idle"
    /\ m_offers = <<>>
    /\ m_target = <<0, 0>>
    /\ m_window = 0
    /\ m_best = NoMatch
    /\ m_result = None

(***************************************************************************)
(* update_all_pricing.py: the three adapters.                              *)
(* A call either returns a value or raises: [ret, exc], exc = "none" when  *)
(* it returned.  The external collaborator's answer is the argument ext.   *)
(***************************************************************************)
Return(v) == [ret |-> v, exc |-> "none"]
Raise(e) == [ret |-> None, exc |-> e]

\* try: <call> except Exception: return None
CatchAll(call) == IF call.exc # "none" THEN Return(None) ELSE call

\* search_amadeus_flights: raise_for_status / timeout raise, otherwise the json
search_amadeus_flights(ext) ==
    IF ext.kind \in {"http_error", "timeout"} THEN Raise(ext.kind) ELSE Return(ext)

\* an offer whose first itinerary has an empty segment list: line 102 reads
\* segments[0] of every offer of the response and raises on it
MalformedOffer(offer) == offer.segments = 0

\* lines 141-143: the body of the try block; a response whose json lacks the
\* fields find_flight_by_time reads raises inside the matcher
cash_try_body(ext, target_time) ==
    LET offers == search_amadeus_flights(ext)
    IN  IF offers.exc # "none" THEN offers
        ELSE IF ext.kind = "malformed" THEN Raise("KeyError")
        ELSE IF \E i \in 1..Len(ext.offers) : MalformedOffer(ext.offers[i])
        THEN Raise("IndexError")
        ELSE Return(find_flight_by_time(ext.offers, target_time, DefaultWindow))

\* the adapter without its try/except
fetch_cash_pricing_uncaught(ext, target_time) == cash_try_body(ext, target_time)

fetch_cash_pricing(ext, target_time) == CatchAll(cash_try_body(ext, target_time))

\* ---- award ----
NoFlight == [flight |-> None, diff |-> Inf]

\* one iteration of the loop of find_matching_flight (lines 167-174)
MatchFlight(flight, target_minutes, max_time_diff_minutes, best) ==
    LET diff == Abs(ClockMinutes(flight.depart_time) - target_minutes)
    IN  IF diff < best.diff /\ diff <= max_time_diff_minutes
        THEN [flight |-> Dict(flight), diff |-> diff]
        ELSE best

RECURSIVE MatchFlightLoop(_, _, _, _, _)
MatchFlightLoop(flights, i, target_minutes, max_time_diff_minutes, best) ==
    IF i > Len(flights) THEN best
    ELSE MatchFlightLoop(flights, i + 1, target_minutes, max_time_diff_minutes,
                         MatchFlight(flights[i], target_minutes,
                                     max_time_diff_minutes, best))

find_matching_flight(flights, depart_time_target, max_time_diff_minutes) ==
    IF flights = <<>> THEN None
    ELSE MatchFlightLoop(flights, 1, ClockMinutes(depart_time_target),
                         max_time_diff_minutes, NoFlight).flight

\* scrape_flight_page: the driver or process_flights raises, or the list of
\* processed flights (possibly empty) is returned
scrape_flight_page(ext) ==
    IF ext.kind \in {"webdriver_error", "malformed"} THEN Raise(ext.kind)
    ELSE Return(ext)

\* lines 195-206: the body of the try block
award_try_body(ext, target_depart_time) ==
    LET flights == scrape_flight_page(ext)
    IN  IF flights.exc # "none" THEN flights
        ELSE IF ext.flights = <<>> THEN Return(None)
        ELSE LET matching_flight ==
                     find_matching_flight(ext.flights, target_depart_time, AwardWindow)
             IN  IF ~Truthy(matching_flight) THEN Return(None)
                 ELSE Return(Dict([main |-> matching_flight.d.num_miles_main,
                                   first |-> matching_flight.d.num_miles_first]))

\* the adapter without its try/except
fetch_award_pricing_uncaught(ext, target_depart_time) ==
    award_try_body(ext, target_depart_time)

fetch_award_pricing(ext, target_depart_time) ==
    CatchAll(award_try_body(ext, target_depart_time))

\* ---- car rental ----
\* max_wait and the sleep of one poll, in seconds
MaxWait == 90
PollStep == 3

\* the n-th answer of the status endpoint
PollResponse(ext, n) == IF n <= Len(ext.polls) THEN ext.polls[n] ELSE ext.rest

TuroResult(v, e, polls, fetches) ==
    [ret |-> v, exc |-> e, polls |-> polls, fetches |-> fetches]

\* the price of the first vehicle returned whatever its amount
turo_dataset_any_amount(ext, polls) ==
    IF ext.dataset.kind = "timeout" THEN TuroResult(None, "timeout", polls, 1)
    ELSE IF ext.dataset.kind # "ok" THEN TuroResult(None, "none", polls, 1)
    ELSE LET vehicles == ext.dataset.vehicles
         IN  IF vehicles = <<>> THEN TuroResult(None, "none", polls, 1)
             ELSE LET vehicle == vehicles[1]
                      price_data == vehicle.avgDailyPrice
                  IN  IF ~(Truthy(price_data) /\ price_data.k = "dict")
                      THEN TuroResult(None, "none", polls, 1)
                      ELSE TuroResult(Dict([price |-> price_data.d.amount,
                                            url |-> IF Truthy(vehicle.url) THEN vehicle.url
                                                    ELSE vehicle.vehicleUrl,
                                            vehicle |-> vehicle.name]),
                                      "none", polls, 1)

\* lines 286-307: the dataset is fetched after SUCCEEDED; a price dict is
\* returned from inside the loop, everything else falls to the break
turo_dataset(ext, polls) ==
    IF ext.dataset.kind = "timeout" THEN TuroResult(None, "timeout", polls, 1)
    ELSE IF ext.dataset.kind # "ok" THEN TuroResult(None, "none", polls, 1)
    ELSE LET vehicles == ext.dataset.vehicles
         IN  IF vehicles = <<>> THEN TuroResult(None, "none", polls, 1)
             ELSE LET vehicle == vehicles[1]
                      price_data == vehicle.avgDailyPrice
                  IN  IF ~(Truthy(price_data) /\ price_data.k = "dict")
                      THEN TuroResult(None, "none", polls, 1)
                      ELSE LET lowest_price == price_data.d.amount
                               vehicle_url == IF Truthy(vehicle.url)
                                              THEN vehicle.url
                                              ELSE vehicle.vehicleUrl
                           IN  IF ~Truthy(lowest_price)
                               THEN TuroResult(None, "none", polls, 1)
                               ELSE TuroResult(Dict([price |-> lowest_price,
                                                     url |-> vehicle_url,
                                                     vehicle |-> vehicle.name]),
                                               "none", polls, 1)

\* the loop entered while wait_time <= max_wait: one poll too many
RECURSIVE turo_poll_loop_inclusive(_, _, _)
turo_poll_loop_inclusive(ext, wait_time, polls) ==
    IF ~(wait_time <= MaxWait) THEN TuroResult(None, "none", polls, 0)
    ELSE LET status_response == PollResponse(ext, polls + 1)
         IN  IF status_response.kind = "timeout"
             THEN TuroResult(None, "timeout", polls + 1, 0)
             ELSE IF status_response.kind # "ok"
             THEN turo_poll_loop_inclusive(ext, wait_time + PollStep, polls + 1)
             ELSE IF status_response.status = "SUCCEEDED"
             THEN turo_dataset(ext, polls + 1)
             ELSE IF status_response.status \in {"FAILED", "ABORTED", "TIMED-OUT"}
             THEN TuroResult(None, "none", polls + 1, 0)
             ELSE turo_poll_loop_inclusive(ext, wait_time + PollStep, polls + 1)

\* the loop without the elif of lines 308-310: a failed job is polled on
RECURSIVE turo_poll_loop_ignores_failure(_, _, _)
turo_poll_loop_ignores_failure(ext, wait_time, polls) ==
    IF ~(wait_time < MaxWait) THEN TuroResult(None, "none", polls, 0)
    ELSE LET status_response == PollResponse(ext, polls + 1)
         IN  IF status_response.kind = "timeout"
             THEN TuroResult(None, "timeout", polls + 1, 0)
             ELSE IF status_response.kind # "ok"
             THEN turo_poll_loop_ignores_failure(ext, wait_time + PollStep, polls + 1)
             ELSE IF status_response.status = "SUCCEEDED"
             THEN turo_dataset(ext, polls + 1)
             ELSE turo_poll_loop_ignores_failure(ext, wait_time + PollStep, polls + 1)

\* the while loop of lines 272-311
RECURSIVE turo_poll_loop(_, _, _)
turo_poll_loop(ext, wait_time, polls) ==
    IF ~(wait_time < MaxWait) THEN TuroResult(None, "none", polls, 0)
    ELSE LET status_response == PollResponse(ext, polls + 1)
         IN  IF status_response.kind = "timeout"
             THEN TuroResult(None, "timeout", polls + 1, 0)
             ELSE IF status_response.kind # "ok"
             THEN turo_poll_loop(ext, wait_time + PollStep, polls + 1)
             ELSE IF status_response.status = "SUCCEEDED"
             THEN turo_dataset(ext, polls + 1)
             ELSE IF status_response.status \in {"FAILED", "ABORTED", "TIMED-OUT"}
             THEN TuroResult(None, "none", polls + 1, 0)
             ELSE turo_poll_loop(ext, wait_time + PollStep, polls + 1)

\* lines 233-314: the body of the try block
turo_try_body(ext) ==
    IF ext.start \in {"http_error", "timeout"} THEN TuroResult(None, ext.start, 0, 0)
    ELSE turo_poll_loop(ext, 0, 0)

fetch_turo_pricing(apify_token, ext) ==
    IF ~apify_token THEN TuroResult(None, "none", 0, 0)
    ELSE LET r == turo_try_body(ext)
         IN  IF r.exc # "none" THEN TuroResult(None, "none", r.polls, r.fetches)
             ELSE r


TuroIdle ==
    /\ tu_pc = "idle"
    /\ tu_job = <<>>
    /\ tu_result = <<>>

AwardIdle ==
    /\ a_pc = "idle"
    /\ a_flights = <<>>
    /\ a_target = <<0, 0>>
    /\ a_result = None

RankIdle ==
    /\ r_pc = "idle"
    /\ all_trips = <<>>
    /\ r_df = <<>>

NormalizeIdle ==
    /\ n_pc = "idle"
    /\ n_kind = "none"
    /\ n_input = <<>>
    /\ n_output = <<>>

(***************************************************************************)
(* update_all_pricing.py: the dataframe and the answers of the external    *)
(* services                                                                *)
(***************************************************************************)
NumDest == 2

DestinationCodes == <<"ATL", "MIA", "BOS", "DCA", "ORD">>
SearchDate == "2025-11-15"
Now == "2025-11-15 08:00"

PricingColumns ==
    {"Cash Price Outbound", "Cash Price Return", "Cash Total Cost",
     "Award Miles Outbound Main", "Award Miles Outbound First",
     "Award Miles Return Main", "Award Miles Return First",
     "Turo Lowest Price", "Turo Vehicle", "Turo URL",
     "Last Updated", "Pricing Date", "Pricing Status"}

\* the columns of the input spreadsheet that the update reads
TripColumns(i) ==
    ("Destination" :> DestinationCodes[i]) @@ ("City" :> DestinationCodes[i])
    @@ ("Depart CLT" :> <<6, 0>>) @@ ("Depart Destination" :> <<17, 14>>)
    @@ ("Arrive Destination" :> <<7, 20>>)

\* initialize_spreadsheet: the pricing columns the input lacks are added as None
FreshRow(i) == TripColumns(i) @@ [c \in PricingColumns |-> None]

\* an input spreadsheet that carries the pricing of an earlier run
StaleRow(i) ==
    TripColumns(i)
    @@ ("Last Updated" :> Str("2025-01-01 00:00")) @@ ("Pricing Date" :> Str("2025-01-02"))
    @@ ("Pricing Status" :> Str("Cash OK | Award OK | Turo OK"))
    @@ ("Turo Vehicle" :> Str("2019 Kia Rio")) @@ ("Turo URL" :> Str("https://turo.com/old"))
    @@ [c \in PricingColumns |-> Num(77)]

\* the input spreadsheet: rows priced by an earlier run alternate with rows
\* whose pricing cells are still empty
InputRow(i) == IF i % 2 = 1 THEN StaleRow(i) ELSE FreshRow(i)

AddMinutes(t, m) == <<(ClockMinutes(t) + m) \div 60, (ClockMinutes(t) + m) % 60>>

\* The services are exercised with every kind of answer for the first
\* destination of the sheet.  For the other destinations the fare search
\* times out or prices the leg, the award page lists the flight and the
\* rental job succeeds.
FullAnswers(destination) == destination = DestinationCodes[1]

CashPriced(t) ==
    [kind |-> "ok", offers |-> << [dep |-> AddMinutes(t, 40), segments |-> 2, price |-> 90],
                                  [dep |-> AddMinutes(t, 10), segments |-> 1, price |-> 120] >>]

\* answers of the fare search for a leg whose target time is t
CashAnswers(destination, t) ==
    IF ~FullAnswers(destination)
    THEN {[kind |-> "timeout", offers |-> <<>>], CashPriced(t)}
    ELSE
    { [kind |-> "http_error", offers |-> <<>>],
      [kind |-> "timeout", offers |-> <<>>],
      [kind |-> "malformed", offers |-> <<>>],
      [kind |-> "ok", offers |-> <<>>],
      [kind |-> "ok", offers |-> << [dep |-> AddMinutes(t, 61), segments |-> 1, price |-> 90] >>],
      [kind |-> "ok", offers |-> << [dep |-> AddMinutes(t, 10), segments |-> 1, price |-> 0] >>],
      CashPriced(t) }

AwardFlight(t, main, first) ==
    [depart_time |-> t, num_stops |-> 0, num_miles_main |-> main, num_miles_first |-> first]

\* answers of the award page for a leg whose target time is t
AwardAnswers(destination, t) ==
    IF ~FullAnswers(destination)
    THEN {[kind |-> "ok", flights |-> << AwardFlight(AddMinutes(t, 5), Num(20), Num(45)) >>]}
    ELSE
    { [kind |-> "webdriver_error", flights |-> <<>>],
      [kind |-> "malformed", flights |-> <<>>],
      [kind |-> "ok", flights |-> <<>>],
      [kind |-> "ok", flights |-> << AwardFlight(AddMinutes(t, 31), Num(20), Num(45)) >>],
      [kind |-> "ok", flights |-> << AwardFlight(AddMinutes(t, 5), Num(20), Num(45)) >>] }

Vehicle(price_data, name) ==
    [avgDailyPrice |-> price_data, url |-> Str("https://turo.com/car"),
     vehicleUrl |-> None, name |-> Str(name)]
Poll(status) == [kind |-> "ok", status |-> status]
NoDataset == [kind |-> "ok", vehicles |-> <<>>]
TuroJob(start, polls, rest, dataset) ==
    [start |-> start, polls |-> polls, rest |-> rest, dataset |-> dataset]

TuroPriced ==
    TuroJob("created", <<Poll("RUNNING"), Poll("SUCCEEDED")>>, Poll("SUCCEEDED"),
            [kind |-> "ok",
             vehicles |-> << Vehicle(Dict([amount |-> Num(30)]), "2020 Toyota Corolla") >>])

\* answers of the job service
TuroAnswers(destination) ==
    IF ~FullAnswers(destination) THEN {TuroPriced}
    ELSE
    { TuroJob("http_error", <<>>, Poll("RUNNING"), NoDataset),
      TuroJob("created", <<Poll("RUNNING"), [kind |-> "timeout", status |-> ""]>>,
              Poll("RUNNING"), NoDataset),
      TuroJob("created", <<>>, Poll("RUNNING"), NoDataset),
      TuroJob("created", <<Poll("RUNNING"), Poll("FAILED")>>, Poll("FAILED"), NoDataset),
      TuroJob("created", <<Poll("SUCCEEDED")>>, Poll("SUCCEEDED"), NoDataset),
      TuroPriced }

\* the failure of the external call that an answer carries, "none" if none
CashFault(ext) == IF ext.kind = "ok" THEN "none" ELSE ext.kind
AwardFault(ext) == IF ext.kind = "ok" THEN "none" ELSE ext.kind
TuroFault(ext) ==
    IF ext.start # "created" THEN ext.start
    ELSE IF \E n \in 1..Len(ext.polls) : ext.polls[n].kind = "timeout" THEN "timeout"
    ELSE "none"

NoCall == [adapter |-> "none", leg |-> "none", fault |-> "none", ret |-> None, exc |-> "none"]

RunIdle ==
    /\ pc = "idle"
    /\ args = [skip_cash |-> FALSE, skip_awards |-> FALSE, skip_turo |-> FALSE,
               apify_token |-> FALSE]
    /\ amadeus_token = FALSE
    /\ award_driver = FALSE
    /\ df = <<>>
    /\ output_file = <<>>
    /\ idx = 1
    /\ updates = <<>>
    /\ status_parts = <<>>
    /\ cash_out = None
    /\ award_out = None
    /\ last_call = NoCall
    /\ called = <<>>
    /\ outcome = <<>>

(***************************************************************************)
(* find_same_day_trips.py: filters and pairing                             *)
(***************************************************************************)
MaxFlights == 2

\* argparse defaults of main
DepartBy == 9
ReturnAfter == 15
ReturnBy == 19
MaxDuration == 204
DayMinutes == 1440

\* --min-ground-time 3.0 (the default) and 6.0, in minutes
MinGroundTimes == {180, 360}

\* A flight offer as parse_flight_offer reads it: departure of the first
\* segment and arrival of the last one (minutes from midnight of the search
\* date, local clock of the airport), the itinerary duration "PT<h>H<m>M" as
\* <<h, m>>, the number of segments, price.total.
Offer(dep, arr, dur, segs, price) ==
    [dep |-> dep, arr |-> arr, duration |-> dur, segments |-> segs, price |-> price]

OutboundOffers ==
    { Offer(370, 450, <<1, 20>>, 1, 120),   \* 06:10 -> 07:30
      Offer(539, 615, <<1, 16>>, 2, 90),    \* 08:59 -> 10:15
      Offer(540, 610, <<1, 10>>, 1, 90),    \* 09:00 -> 10:10
      Offer(420, 624, <<3, 24>>, 1, 150),   \* 07:00 -> 10:24, 204 minutes
      Offer(420, 625, <<3, 25>>, 1, 150) }  \* 07:00 -> 10:25, 205 minutes

ReturnOffers ==
    { Offer(810, 900, <<1, 30>>, 1, 100),   \* 13:30 -> 15:00
      Offer(630, 940, <<3, 10>>, 1, 80),    \* 10:30 -> 15:40
      Offer(629, 939, <<3, 10>>, 2, 80),    \* 10:29 -> 15:39
      Offer(600, 1020, <<3, 24>>, 1, 60),   \* 10:00 -> 17:00
      Offer(960, 1140, <<3, 0>>, 1, 70),    \* 16:00 -> 19:00
      Offer(780, 899, <<1, 59>>, 1, 70) }   \* 13:00 -> 14:59

TripsIdle ==
    /\ t_pc = "idle"
    /\ t_outbound = <<>>
    /\ t_return = <<>>
    /\ t_min_ground = 0
    /\ trips = <<>>

\* "PT2H15M" -> 135
parse_duration(duration_str) == duration_str[1] * 60 + duration_str[2]

parse_flight_offer(offer) ==
    [depart_time |-> offer.dep,
     arrive_time |-> offer.arr,
     duration_minutes |-> parse_duration(offer.duration),
     num_stops |-> offer.segments - 1,
     price |-> offer.price]

\* datetime.hour
HourOf(dt) == (dt % DayMinutes) \div 60

\* strftime('%H:%M')
format_time(dt) == <<HourOf(dt), dt % 60>>

\* the cutoff hour itself accepted
KeepOutboundInclusive(parsed, max_depart_hour, max_duration) ==
    /\ HourOf(parsed.depart_time) <= max_depart_hour
    /\ parsed.duration_minutes <= max_duration

\* the condition of lines 174-175
KeepOutbound(parsed, max_depart_hour, max_duration) ==
    /\ HourOf(parsed.depart_time) < max_depart_hour
    /\ parsed.duration_minutes <= max_duration

RECURSIVE OutboundLoop(_, _, _, _)
OutboundLoop(flights, i, max_depart_hour, max_duration) ==
    IF i > Len(flights) THEN <<>>
    ELSE LET parsed == parse_flight_offer(flights[i])
             rest == OutboundLoop(flights, i + 1, max_depart_hour, max_duration)
         IN  IF KeepOutbound(parsed, max_depart_hour, max_duration)
             THEN <<parsed>> \o rest ELSE rest

filter_outbound_flights(flights, max_depart_hour, max_duration) ==
    OutboundLoop(flights, 1, max_depart_hour, max_duration)

\* the upper hour itself accepted
KeepReturnInclusive(parsed, min_arrive_hour, max_arrive_hour, max_duration) ==
    /\ min_arrive_hour <= HourOf(parsed.arrive_time)
    /\ HourOf(parsed.arrive_time) <= max_arrive_hour
    /\ parsed.duration_minutes <= max_duration

\* the condition of lines 193-194
KeepReturn(parsed, min_arrive_hour, max_arrive_hour, max_duration) ==
    /\ min_arrive_hour <= HourOf(parsed.arrive_time)
    /\ HourOf(parsed.arrive_time) < max_arrive_hour
    /\ parsed.duration_minutes <= max_duration

RECURSIVE ReturnLoop(_, _, _, _, _)
ReturnLoop(flights, i, min_arrive_hour, max_arrive_hour, max_duration) ==
    IF i > Len(flights) THEN <<>>
    ELSE LET parsed == parse_flight_offer(flights[i])
             rest == ReturnLoop(flights, i + 1, min_arrive_hour, max_arrive_hour,
                                max_duration)
         IN  IF KeepReturn(parsed, min_arrive_hour, max_arrive_hour, max_duration)
             THEN <<parsed>> \o rest ELSE rest

filter_return_flights(flights, min_arrive_hour, max_arrive_hour, max_duration) ==
    ReturnLoop(flights, 1, min_arrive_hour, max_arrive_hour, max_duration)

\* measured from the outbound departure instead of the outbound arrival
calculate_ground_time_from_departure(outbound, return_departure) ==
    return_departure - outbound.depart_time

\* return_departure - outbound_arrival, here in minutes
calculate_ground_time(outbound, return_departure) ==
    return_departure - outbound.arrive_time

\* the dict appended to trips; pair is bookkeeping: the positions of the two
\* legs in the filtered lists
Trip(outbound, return_flight, i, j) ==
    LET ground_time == calculate_ground_time(outbound, return_flight.depart_time)
    IN  [OutboundStops |-> outbound.num_stops,
         DepartOrigin |-> format_time(outbound.depart_time),
         ArriveDestination |-> format_time(outbound.arrive_time),
         OutboundPrice |-> outbound.price,
         ReturnStops |-> return_flight.num_stops,
         DepartDestination |-> format_time(return_flight.depart_time),
         ArriveOrigin |-> format_time(return_flight.arrive_time),
         ReturnPrice |-> return_flight.price,
         GroundTime |-> ground_time,
         TotalFlightCost |-> outbound.price + return_flight.price,
         pair |-> <<i, j>>]

\* the inner loop left at the first return flight that pairs
RECURSIVE PairLoopFirstReturnOnly(_, _, _, _, _)
PairLoopFirstReturnOnly(outbound_flights, return_flights, i, j, min_ground_time) ==
    IF i > Len(outbound_flights) THEN <<>>
    ELSE IF j > Len(return_flights)
         THEN PairLoopFirstReturnOnly(outbound_flights, return_flights, i + 1, 1,
                                      min_ground_time)
         ELSE LET outbound == outbound_flights[i]
                  return_flight == return_flights[j]
              IN  IF calculate_ground_time(outbound, return_flight.depart_time)
                       >= min_ground_time
                  THEN <<Trip(outbound, return_flight, i, j)>>
                       \o PairLoopFirstReturnOnly(outbound_flights, return_flights,
                                                  i + 1, 1, min_ground_time)
                  ELSE PairLoopFirstReturnOnly(outbound_flights, return_flights,
                                               i, j + 1, min_ground_time)

\* the nested loops of lines 256-297, outbound-major
RECURSIVE PairLoop(_, _, _, _, _)
PairLoop(outbound_flights, return_flights, i, j, min_ground_time) ==
    IF i > Len(outbound_flights) THEN <<>>
    ELSE IF j > Len(return_flights)
         THEN PairLoop(outbound_flights, return_flights, i + 1, 1, min_ground_time)
         ELSE LET outbound == outbound_flights[i]
                  return_flight == return_flights[j]
                  rest == PairLoop(outbound_flights, return_flights, i, j + 1,
                                   min_ground_time)
              IN  IF calculate_ground_time(outbound, return_flight.depart_time)
                       >= min_ground_time
                  THEN <<Trip(outbound, return_flight, i, j)>> \o rest
                  ELSE rest

find_same_day_trips_for_destination(outbound_offers, return_offers, min_ground_time, max_duration, max_depart_hour, min_return_hour, max_return_hour) ==
    LET outbound_flights ==
            filter_outbound_flights(outbound_offers, max_depart_hour, max_duration)
        return_flights ==
            filter_return_flights(return_offers, min_return_hour, max_return_hour,
                                  max_duration)
    IN  IF outbound_flights = <<>> THEN <<>>
        ELSE IF return_flights = <<>> THEN <<>>
        ELSE PairLoop(outbound_flights, return_flights, 1, 1, min_ground_time)


(***************************************************************************)
(* update_all_pricing.py: main and update_pricing_for_trip                 *)
(***************************************************************************)
\* d[key] = value
DictSet(d, key, value) == (key :> value) @@ d

\* '|'.join(parts): the separator without its blanks
RECURSIVE JoinNoBlanks(_, _)
JoinNoBlanks(parts, sep) ==
    IF parts = <<>> THEN ""
    ELSE IF Len(parts) = 1 THEN parts[1]
    ELSE parts[1] \o "|" \o JoinNoBlanks(Tail(parts), sep)

\* ' | '.join(parts)
RECURSIVE Join(_, _)
Join(parts, sep) ==
    IF parts = <<>> THEN ""
    ELSE IF Len(parts) = 1 THEN parts[1]
    ELSE parts[1] \o sep \o Join(Tail(parts), sep)

\* the award stage entered whatever --skip-awards says
AwardRequestedAlways == TRUE

\* the conditions of lines 382, 413 and 449
CashRequested == ~args.skip_cash
AwardRequested == ~args.skip_awards
TuroRequested == ~args.skip_turo /\ args.apify_token

StageAfterAward == IF TuroRequested THEN "turo" ELSE "finalize"
StageAfterCash == IF AwardRequested THEN "award_out" ELSE StageAfterAward
StageAfterEntry == IF CashRequested THEN "cash_out" ELSE StageAfterCash

RunInit ==
    /\ RankIdle
    /\ NormalizeIdle
    /\ MatchIdle
    /\ TripsIdle
    /\ TuroIdle
    /\ AwardIdle
    /\ pc = "auth"
    /\ args \in [skip_cash : BOOLEAN, skip_awards : BOOLEAN, skip_turo : BOOLEAN,
                 apify_token : BOOLEAN]
    /\ amadeus_token = FALSE
    /\ award_driver = FALSE
    /\ df = [i \in 1..NumDest |-> InputRow(i)]
    /\ output_file = <<>>
    /\ idx = 1
    /\ updates = <<>>
    /\ status_parts = <<>>
    /\ cash_out = None
    /\ award_out = None
    /\ last_call = NoCall
    /\ called = [i \in 1..NumDest |-> {}]
    /\ outcome = [i \in 1..NumDest |-> "pending"]

\* lines 548-553: get_amadeus_token raises on a failed exchange, and nothing
\* in main catches it
Authenticate ==
    /\ pc = "auth"
    /\ IF args.skip_cash
       THEN /\ pc' = "browser"
            /\ UNCHANGED amadeus_token
       ELSE \E ok \in BOOLEAN :
               /\ amadeus_token' = ok
               /\ pc' = IF ok THEN "browser" ELSE "crashed"
    /\ UNCHANGED <<args, award_driver, df, output_file, idx, updates, status_parts,
                   cash_out, award_out, last_call, called, outcome, mvars, tvars, uvars, avars, rvars, nvars>>

\* lines 555-581: the browser is started when awards are requested
StartBrowser ==
    /\ pc = "browser"
    /\ IF args.skip_awards
       THEN /\ pc' = "loop"
            /\ UNCHANGED award_driver
       ELSE \E ok \in BOOLEAN :
               /\ award_driver' = ok
               /\ pc' = IF ok THEN "loop" ELSE "crashed"
    /\ UNCHANGED <<args, amadeus_token, df, output_file, idx, updates, status_parts,
                   cash_out, award_out, last_call, called, outcome, mvars, tvars, uvars, avars, rvars, nvars>>

\* line 583: the next index of the for loop, or the end of the loop
LoopHead ==
    /\ pc = "loop"
    /\ pc' = IF idx > Len(df) THEN "final_save" ELSE "entry"
    /\ UNCHANGED <<args, amadeus_token, award_driver, df, output_file, idx, updates,
                   status_parts, cash_out, award_out, last_call, called, outcome,
                   mvars, tvars, uvars, avars, rvars, nvars>>

\* a handler that gives up: the exception ends the run
ExceptHandlerFatal(e, how) ==
    /\ outcome' = [outcome EXCEPT ![idx] = how]
    /\ pc' = "crashed"
    /\ updates' = <<>>
    /\ status_parts' = <<>>
    /\ cash_out' = None
    /\ award_out' = None
    /\ UNCHANGED <<df, idx>>

\* a handler that goes back to the same destination instead of the next
ExceptHandlerRetry(e, how) ==
    /\ df' = [df EXCEPT ![idx] = DictSet(@, "Pricing Status", Str("Error: " \o e))]
    /\ outcome' = [outcome EXCEPT ![idx] = how]
    /\ pc' = "loop"
    /\ updates' = <<>>
    /\ status_parts' = <<>>
    /\ cash_out' = None
    /\ award_out' = None
    /\ UNCHANGED idx

\* lines 598-601: the handler of the loop body, reached by an exception e
\* raised in the update or in the save of destination idx
ExceptHandler(e, how) ==
    /\ df' = [df EXCEPT ![idx] = DictSet(@, "Pricing Status", Str("Error: " \o e))]
    /\ outcome' = [outcome EXCEPT ![idx] = how]
    /\ idx' = idx + 1
    /\ pc' = "loop"
    /\ updates' = <<>>
    /\ status_parts' = <<>>
    /\ cash_out' = None
    /\ award_out' = None

\* lines 365-379: the row is read and the header printed; either can raise
UpdateEntry ==
    /\ pc = "entry"
    /\ \E raises \in BOOLEAN :
          IF raises
          THEN /\ ExceptHandler("UnicodeEncodeError", "update_raised")
               /\ UNCHANGED <<last_call, called>>
          ELSE /\ updates' = <<>>
               /\ status_parts' = <<>>
               /\ pc' = StageAfterEntry
               /\ UNCHANGED <<df, idx, cash_out, award_out, last_call, called, outcome>>
    /\ UNCHANGED <<args, amadeus_token, award_driver, output_file, mvars, tvars, uvars, avars, rvars, nvars>>

Record(adapter, leg, fault, call) ==
    [adapter |-> adapter, leg |-> leg, fault |-> fault, ret |-> call.ret,
     exc |-> call.exc]

\* lines 387-392: the outbound cash call
CashOutbound ==
    /\ pc = "cash_out"
    /\ \E ext \in CashAnswers(df[idx]["Destination"], df[idx]["Depart CLT"]) :
          LET call == fetch_cash_pricing(ext, df[idx]["Depart CLT"])
          IN  /\ last_call' = Record("cash", "out", CashFault(ext), call)
              /\ called' = [called EXCEPT ![idx] = @ \cup {"cash_out"}]
              /\ IF call.exc # "none"
                 THEN ExceptHandler(call.exc, "update_raised")
                 ELSE /\ cash_out' = call.ret
                      /\ updates' = IF Truthy(call.ret)
                                    THEN DictSet(updates, "Cash Price Outbound", call.ret)
                                    ELSE updates
                      /\ pc' = "cash_ret"
                      /\ UNCHANGED <<df, idx, status_parts, award_out, outcome>>
    /\ UNCHANGED <<args, amadeus_token, award_driver, output_file, mvars, tvars, uvars, avars, rvars, nvars>>

\* lines 405-410
\* one priced leg taken for a priced trip
CashStatusEitherLeg(out, ret) ==
    IF Truthy(out) \/ Truthy(ret) THEN "Cash OK" ELSE "Cash Failed"

CashStatus(out, ret) ==
    IF Truthy(out) /\ Truthy(ret) THEN "Cash OK"
    ELSE IF Truthy(out) \/ Truthy(ret) THEN "Cash Partial"
    ELSE "Cash Failed"

\* lines 397-410: the return cash call, the total and the status token
CashReturn ==
    /\ pc = "cash_ret"
    /\ \E ext \in CashAnswers(df[idx]["Destination"], df[idx]["Depart Destination"]) :
          LET call == fetch_cash_pricing(ext, df[idx]["Depart Destination"])
              cash_ret == call.ret
              with_ret == IF Truthy(cash_ret)
                          THEN DictSet(updates, "Cash Price Return", cash_ret)
                          ELSE updates
          IN  /\ last_call' = Record("cash", "ret", CashFault(ext), call)
              /\ called' = [called EXCEPT ![idx] = @ \cup {"cash_ret"}]
              /\ IF call.exc # "none"
                 THEN ExceptHandler(call.exc, "update_raised")
                 ELSE /\ updates' = IF Truthy(cash_out) /\ Truthy(cash_ret)
                                    THEN DictSet(with_ret, "Cash Total Cost",
                                                 Num(cash_out.n + cash_ret.n))
                                    ELSE with_ret
                      /\ status_parts' = Append(status_parts, CashStatus(cash_out, cash_ret))
                      /\ cash_out' = None
                      /\ pc' = StageAfterCash
                      /\ UNCHANGED <<df, idx, award_out, outcome>>
    /\ UNCHANGED <<args, amadeus_token, award_driver, output_file, mvars, tvars, uvars, avars, rvars, nvars>>

\* lines 418-425 and 431-438: the two award cells of one leg
AwardCells(upd, main_col, first_col, award) ==
    IF Truthy(award)
    THEN DictSet(DictSet(upd, main_col, award.d.main), first_col, award.d.first)
    ELSE DictSet(DictSet(upd, main_col, Str("No Reward Available")),
                 first_col, Str("No Reward Available"))

\* lines 417-425: the outbound award call
AwardOutbound ==
    /\ pc = "award_out"
    /\ \E ext \in AwardAnswers(df[idx]["Destination"], df[idx]["Depart CLT"]) :
          LET call == fetch_award_pricing(ext, df[idx]["Depart CLT"])
          IN  /\ last_call' = Record("award", "out", AwardFault(ext), call)
              /\ called' = [called EXCEPT ![idx] = @ \cup {"award_out"}]
              /\ IF call.exc # "none"
                 THEN ExceptHandler(call.exc, "update_raised")
                 ELSE /\ award_out' = call.ret
                      /\ updates' = AwardCells(updates, "Award Miles Outbound Main",
                                               "Award Miles Outbound First", call.ret)
                      /\ pc' = "award_ret"
                      /\ UNCHANGED <<df, idx, status_parts, cash_out, outcome>>
    /\ UNCHANGED <<args, amadeus_token, award_driver, output_file, mvars, tvars, uvars, avars, rvars, nvars>>

\* lines 441-446
AwardStatus(out, ret) ==
    IF Truthy(out) /\ Truthy(ret) THEN "Award OK"
    ELSE IF Truthy(out) \/ Truthy(ret) THEN "Award Partial"
    ELSE "Award: No availability"

\* lines 430-446: the return award call and the status token
AwardReturn ==
    /\ pc = "award_ret"
    /\ \E ext \in AwardAnswers(df[idx]["Destination"], df[idx]["Depart Destination"]) :
          LET call == fetch_award_pricing(ext, df[idx]["Depart Destination"])
          IN  /\ last_call' = Record("award", "ret", AwardFault(ext), call)
              /\ called' = [called EXCEPT ![idx] = @ \cup {"award_ret"}]
              /\ IF call.exc # "none"
                 THEN ExceptHandler(call.exc, "update_raised")
                 ELSE /\ updates' = AwardCells(updates, "Award Miles Return Main",
                                               "Award Miles Return First", call.ret)
                      /\ status_parts' = Append(status_parts,
                                                AwardStatus(award_out, call.ret))
                      /\ award_out' = None
                      /\ pc' = StageAfterAward
                      /\ UNCHANGED <<df, idx, cash_out, outcome>>
    /\ UNCHANGED <<args, amadeus_token, award_driver, output_file, mvars, tvars, uvars, avars, rvars, nvars>>

\* lines 469-479: the cells and the token of a car-rental result
\* the cells of a failed search emptied
TuroCellsCleared(upd, turo_result) ==
    IF Truthy(turo_result)
    THEN DictSet(DictSet(DictSet(upd, "Turo Lowest Price", turo_result.d.price),
                         "Turo Vehicle", turo_result.d.vehicle),
                 "Turo URL", turo_result.d.url)
    ELSE DictSet(DictSet(DictSet(upd, "Turo Lowest Price", None),
                         "Turo Vehicle", None),
                 "Turo URL", None)

TuroCells(upd, turo_result) ==
    IF Truthy(turo_result)
    THEN DictSet(DictSet(DictSet(upd, "Turo Lowest Price", turo_result.d.price),
                         "Turo Vehicle", turo_result.d.vehicle),
                 "Turo URL", turo_result.d.url)
    ELSE upd

\* lines 449-483: the car-rental stage; its own try turns an exception into
\* the token 'Turo Error'
TuroStage ==
    /\ pc = "turo"
    /\ \E ext \in TuroAnswers(df[idx]["Destination"]) :
          LET call == fetch_turo_pricing(args.apify_token, ext)
          IN  /\ last_call' = Record("turo", "none", TuroFault(ext), call)
              /\ called' = [called EXCEPT ![idx] = @ \cup {"turo"}]
              /\ IF call.exc # "none"
                 THEN /\ status_parts' = Append(status_parts, "Turo Error")
                      /\ UNCHANGED updates
                 ELSE /\ updates' = TuroCells(updates, call.ret)
                      /\ status_parts' = Append(status_parts,
                                                IF Truthy(call.ret) THEN "Turo OK"
                                                ELSE "Turo Failed")
    /\ pc' = "finalize"
    /\ UNCHANGED <<args, amadeus_token, award_driver, df, output_file, idx, cash_out,
                   award_out, outcome, mvars, tvars, uvars, avars, rvars, nvars>>

\* lines 486-488
Metadata(upd, parts) ==
    DictSet(DictSet(DictSet(upd, "Last Updated", Str(Now)),
                    "Pricing Date", Str(SearchDate)),
            "Pricing Status", Str(IF parts # <<>> THEN Join(parts, " | ")
                                  ELSE "No updates"))

\* lines 491-492: df.at[idx, col] = value for every entry of updates
ApplyUpdates(row, upd) ==
    [c \in DOMAIN row |-> IF c \in DOMAIN upd THEN upd[c] ELSE row[c]]

\* lines 485-494: metadata, the updates applied to the row, return
Finalize ==
    /\ pc = "finalize"
    /\ df' = [df EXCEPT ![idx] = ApplyUpdates(@, Metadata(updates, status_parts))]
    /\ outcome' = [outcome EXCEPT ![idx] = "finalized"]
    /\ updates' = <<>>
    /\ status_parts' = <<>>
    /\ pc' = "save"
    /\ last_call' = NoCall
    /\ UNCHANGED <<args, amadeus_token, award_driver, output_file, idx, cash_out,
                   award_out, called, mvars, tvars, uvars, avars, rvars, nvars>>

\* a write that leaves the file as it was
to_excel_nothing(frame, file) == file

\* a write that leaves the error statuses out
to_excel_without_errors(frame, file) ==
    [i \in DOMAIN frame |->
        IF frame[i]["Pricing Status"] = Str("Error: UnicodeEncodeError")
        THEN InputRow(i) ELSE frame[i]]

\* what to_excel leaves in the output file
to_excel(frame, file) == frame

\* lines 591-593: the checkpoint after the update; to_excel can raise (the
\* file is locked or the disk full), which the handler of the loop catches
SaveProgress ==
    /\ pc = "save"
    /\ \E ok \in BOOLEAN :
          IF ok
          THEN /\ output_file' = to_excel(df, output_file)
               /\ pc' = "sleep"
               /\ UNCHANGED <<df, idx, updates, status_parts, cash_out, award_out, outcome>>
          ELSE /\ ExceptHandler("PermissionError", "save_raised")
               /\ UNCHANGED output_file
    /\ UNCHANGED <<args, amadeus_token, award_driver, last_call, called, mvars, tvars, uvars, avars, rvars, nvars>>

\* line 596: the delay between destinations, then the next index
Sleep ==
    /\ pc = "sleep"
    /\ idx' = idx + 1
    /\ pc' = "loop"
    /\ UNCHANGED <<args, amadeus_token, award_driver, df, output_file, updates,
                   status_parts, cash_out, award_out, last_call, called, outcome,
                   mvars, tvars, uvars, avars, rvars, nvars>>

\* lines 603-608: cleanup and the final save, outside any try
FinalSave ==
    /\ pc = "final_save"
    /\ \E ok \in BOOLEAN :
          IF ok
          THEN /\ output_file' = to_excel(df, output_file)
               /\ pc' = "done"
          ELSE /\ pc' = "crashed"
               /\ UNCHANGED output_file
    /\ UNCHANGED <<args, amadeus_token, award_driver, df, idx, updates, status_parts,
                   cash_out, award_out, last_call, called, outcome, mvars, tvars, uvars, avars, rvars, nvars>>

\* the rows a write cut short leaves in the file: some of them, not all
HalfWritten(frame) == {[i \in 1..k |-> frame[i]] : k \in 1..(Len(frame) - 1)}

\* Ctrl-C: KeyboardInterrupt is not an Exception, so the handler of lines
\* 598-601 does not catch it and nothing else in main does; the process
\* exits where it stands.  While to_excel is writing (lines 592 and 608) the
\* write has not started yet or is cut short.
Interrupt ==
    /\ pc \in {"auth", "browser", "loop", "entry", "cash_out", "cash_ret", "award_out",
               "award_ret", "turo", "finalize", "save", "sleep", "final_save"}
    /\ output_file' \in IF pc \in {"save", "final_save"}
                        THEN {output_file} \cup HalfWritten(df)
                        ELSE {output_file}
    /\ pc' = "interrupted"
    /\ UNCHANGED <<args, amadeus_token, award_driver, df, idx, updates, status_parts,
                   cash_out, award_out, last_call, called, outcome, mvars, tvars, uvars, avars, rvars, nvars>>

Next ==
    \/ Interrupt
    \/ Authenticate
    \/ StartBrowser
    \/ LoopHead
    \/ UpdateEntry
    \/ CashOutbound
    \/ CashReturn
    \/ AwardOutbound
    \/ AwardReturn
    \/ TuroStage
    \/ Finalize
    \/ SaveProgress
    \/ Sleep
    \/ FinalSave

Spec == RunInit /\ [][Next]_vars

(***************************************************************************)
(* Specification of the matcher: any bounded offer list, target and window *)
(***************************************************************************)
MatchInit ==
    /\ RankIdle
    /\ NormalizeIdle
    /\ TripsIdle
    /\ RunIdle
    /\ TuroIdle
    /\ AwardIdle
    /\ m_pc = "start"
    /\ m_offers \in SeqsUpTo(MatchOffers, MaxOffers)
    /\ m_target \in MatchTargets
    /\ m_window \in MatchWindows
    /\ m_best = NoMatch
    /\ m_result = None

CallMatcher ==
    /\ m_pc = "start"
    /\ m_best' = find_flight_by_time_locals(m_offers, m_target, m_window)
    /\ m_result' = find_flight_by_time(m_offers, m_target, m_window)
    /\ m_pc' = "done"
    /\ UNCHANGED <<m_offers, m_target, m_window, tvars, ovars, uvars, avars, rvars, nvars>>

MatchNext == CallMatcher

SpecMatch == MatchInit /\ [][MatchNext]_vars


(***************************************************************************)
(* Specification of the pairing step: any bounded pair of offer lists      *)
(***************************************************************************)
TripsInit ==
    /\ RankIdle
    /\ NormalizeIdle
    /\ MatchIdle
    /\ RunIdle
    /\ TuroIdle
    /\ AwardIdle
    /\ t_pc = "start"
    /\ t_outbound \in SeqsUpTo(OutboundOffers, MaxFlights)
    /\ t_return \in SeqsUpTo(ReturnOffers, MaxFlights)
    /\ t_min_ground \in MinGroundTimes
    /\ trips = <<>>

FindTrips ==
    /\ t_pc = "start"
    /\ trips' = find_same_day_trips_for_destination(
                    t_outbound, t_return, t_min_ground,
                    MaxDuration, DepartBy, ReturnAfter, ReturnBy)
    /\ t_pc' = "done"
    /\ UNCHANGED <<t_outbound, t_return, t_min_ground, mvars, ovars, uvars, avars, rvars, nvars>>

TripsNext == FindTrips

SpecTrips == TripsInit /\ [][TripsNext]_vars

\* the filtered lists the pairing ran over
FilteredOutbound == filter_outbound_flights(t_outbound, DepartBy, MaxDuration)
FilteredReturn == filter_return_flights(t_return, ReturnAfter, ReturnBy, MaxDuration)

\* C1: every emitted trip has ground time (return departure minus outbound
\* arrival) at least the configured minimum.
C1_GroundTimeAtLeastMin ==
    t_pc = "done" =>
        \A k \in 1..Len(trips) :
            LET i == trips[k].pair[1]
                j == trips[k].pair[2]
            IN  /\ i \in 1..Len(FilteredOutbound)
                /\ j \in 1..Len(FilteredReturn)
                /\ FilteredReturn[j].depart_time - FilteredOutbound[i].arrive_time
                       >= t_min_ground
                /\ trips[k].GroundTime >= t_min_ground

\* a run that emitted a trip exactly at the minimum and rejected a pair of
\* filtered flights one minute below it
C1_Witness ==
    /\ t_pc = "done"
    /\ Len(trips) >= 1
    /\ \E k \in 1..Len(trips) : trips[k].GroundTime = t_min_ground
    /\ \E i \in 1..Len(FilteredOutbound), j \in 1..Len(FilteredReturn) :
           /\ FilteredReturn[j].depart_time - FilteredOutbound[i].arrive_time
                  = t_min_ground - 1
           /\ \A k \in 1..Len(trips) : trips[k].pair # <<i, j>>

(***************************************************************************)
(* Properties of the matcher                                               *)
(***************************************************************************)
\* the time difference of offer i, straight from the clock values
OfferDiff(i) ==
    Abs((m_offers[i].dep[1] * 60 + m_offers[i].dep[2])
        - (m_target[1] * 60 + m_target[2]))
Survivors == {i \in 1..Len(m_offers) : OfferDiff(i) <= m_window}
Nearest == {i \in Survivors : \A j \in Survivors : OfferDiff(i) <= OfferDiff(j)}
NearestDirect == {i \in Nearest : m_offers[i].segments = 1}
\* the nearest offers of the preferred directness
Preferred == IF NearestDirect # {} THEN NearestDirect ELSE Nearest

\* C2: every candidate farther from the target than the window is
\* discarded and one exactly at the window is kept; the matcher returns
\* None when no candidate survives, and otherwise the price of a survivor
\* whose difference is the minimum over the survivors, so 06:10 direct $120
\* beats 06:40 one-stop $90 for target 06:00 and window 60.
C2_NearestWins ==
    m_pc = "done" =>
        /\ (Survivors = {} => m_result = None)
        /\ (Survivors # {} =>
               /\ \E i \in Nearest : /\ m_result = Num(m_offers[i].price)
                                     /\ m_best.diff = OfferDiff(i))
        /\ ((/\ m_offers = << [dep |-> <<6, 10>>, segments |-> 1, price |-> 120],
                              [dep |-> <<6, 40>>, segments |-> 2, price |-> 90] >>
             /\ m_target = <<6, 0>>
             /\ m_window = 60)
            => m_result = Num(120))

\* the farther, cheaper one-stop offer is listed first and loses against the
\* nearer, dearer direct offer listed after it
C2_Witness ==
    /\ m_pc = "done"
    /\ m_offers = << [dep |-> <<6, 40>>, segments |-> 2, price |-> 90],
                     [dep |-> <<6, 10>>, segments |-> 1, price |-> 120] >>
    /\ m_target = <<6, 0>>
    /\ m_window = 60
    /\ m_result = Num(120)

\* C3: when the nearest survivors include a direct offer, the offer
\* selected is a direct one, whatever the order of the list and whatever
\* the prices.
C3_DirectWinsTie ==
    (m_pc = "done" /\ NearestDirect # {}) =>
        /\ m_best.is_direct
        /\ \E i \in NearestDirect : m_result = Num(m_offers[i].price)

\* equal difference, the direct offer dearer and listed first, the one-stop
\* offer cheaper and listed second: the direct one is returned
C3_Witness ==
    /\ m_pc = "done"
    /\ Len(m_offers) = 2
    /\ OfferDiff(1) = OfferDiff(2)
    /\ OfferDiff(1) <= m_window
    /\ m_offers[1].segments = 1 /\ m_offers[2].segments = 2
    /\ m_offers[1].price > m_offers[2].price
    /\ m_result = Num(m_offers[1].price)

\* C4: among the nearest survivors of equal directness the lowest price is
\* the one returned, in either input order.
C4_CheaperWinsTie ==
    (m_pc = "done" /\ Survivors # {}) =>
        /\ \E i \in Preferred : m_result = Num(m_offers[i].price)
        /\ \A j \in Preferred : m_result.n <= m_offers[j].price

\* equal difference and directness, the cheaper offer listed second
C4_Witness ==
    /\ m_pc = "done"
    /\ Len(m_offers) = 2
    /\ OfferDiff(1) = OfferDiff(2)
    /\ OfferDiff(1) <= m_window
    /\ m_offers[1].segments = m_offers[2].segments
    /\ m_offers[1].price > m_offers[2].price
    /\ m_result = Num(m_offers[2].price)

(***************************************************************************)
(* Properties of the pricing run                                           *)
(***************************************************************************)
Rows == 1..NumDest

\* the adapter calls a destination must see under the flags of the run
RequestedCalls ==
    (IF ~args.skip_cash THEN {"cash_out", "cash_ret"} ELSE {})
    \cup (IF ~args.skip_awards THEN {"award_out", "award_ret"} ELSE {})
    \cup (IF ~args.skip_turo /\ args.apify_token THEN {"turo"} ELSE {})

\* the row carries the metadata that the finalize step writes
Finalized(row) ==
    /\ row["Last Updated"] = Str(Now)
    /\ row["Pricing Date"] = Str(SearchDate)

\* the iteration of destination i has ended
Ended(i) == outcome[i] # "pending"

\* C5: a destination whose update got to its stages (it did not raise
\* before its first stage) and has ended saw every requested adapter call,
\* cash, award and car rental, whatever the earlier calls returned, and
\* reached the finalize step (status, timestamp and pricing date written).
C5_StagesIndependent ==
    \A i \in Rows :
        (Ended(i) /\ (called[i] # {} \/ outcome[i] # "update_raised")) =>
            /\ called[i] = RequestedCalls
            /\ outcome[i] \in {"finalized", "save_raised"}
            /\ Finalized(df[i])

\* every source failed for the first destination and it was finalized with
\* all five calls made
C5_Witness ==
    /\ outcome[1] = "finalized"
    /\ called[1] = {"cash_out", "cash_ret", "award_out", "award_ret", "turo"}
    /\ df[1]["Pricing Status"] = Str("Cash Failed | Award: No availability | Turo Failed")

\* rows of the output file that are finalized records
CompleteRows == {i \in Rows : Finalized(output_file[i])}

\* the cells of row i are those of the input but for an error status
OnlyErrorStatus(row, i) ==
    /\ \A c \in DOMAIN row : c # "Pricing Status" => row[c] = InputRow(i)[c]
    /\ row["Pricing Status"] \in {Str("Error: UnicodeEncodeError"),
                                  Str("Error: PermissionError")}

\* C6 as claimed: after the checkpoint of destination N and before N+1
\* starts, the output file holds exactly N finalized records.
C6_ExactlyNComplete ==
    pc = "sleep" => Cardinality(CompleteRows) = idx

\* C6: after the checkpoint of destination N and before N+1 starts the
\* output file equals the dataframe; row N is a finalized record, and so is
\* every earlier row whose update did not raise; a row whose update raised
\* is the input row with an error status; the rows after N are the input
\* rows.  The file holds N finalized records exactly when no update raised.
C6_CheckpointAfterEach ==
    pc = "sleep" =>
        /\ output_file = df
        /\ outcome[idx] = "finalized"
        /\ \A i \in 1..idx :
              /\ Finalized(output_file[i]) <=> outcome[i] \in {"finalized", "save_raised"}
              /\ outcome[i] = "update_raised" => OnlyErrorStatus(output_file[i], i)
        /\ \A i \in (idx + 1)..NumDest : output_file[i] = InputRow(i)
        /\ (Cardinality(CompleteRows) = idx
               <=> \A i \in 1..idx : outcome[i] # "update_raised")

\* the second destination was checkpointed after the update of the first
\* one raised: the file holds one finalized record, not two
C6_Witness ==
    /\ pc = "sleep"
    /\ idx = 2
    /\ outcome[1] = "update_raised"
    /\ output_file = df
    /\ Cardinality(CompleteRows) = 1

\* the tokens a source can contribute, "" when it contributes none
CashTokens == IF ~args.skip_cash THEN {"Cash OK", "Cash Partial", "Cash Failed"} ELSE {""}
AwardTokens ==
    IF ~args.skip_awards THEN {"Award OK", "Award Partial", "Award: No availability"}
    ELSE {""}
TuroTokens ==
    IF ~args.skip_turo /\ args.apify_token THEN {"Turo OK", "Turo Failed"} ELSE {""}

\* the tokens that are present, in the order cash, award, car rental, with
\* " | " between neighbours
Composite(c, a, t) ==
    c \o (IF c # "" /\ (a # "" \/ t # "") THEN " | " ELSE "")
      \o a \o (IF a # "" /\ t # "" THEN " | " ELSE "") \o t

NoReward == Str("No Reward Available")

\* C7: the status of a finalized destination is the tokens of the attempted
\* sources in the order cash, award, car rental joined by " | "; with cash
\* priced on both legs, no award on either leg and a car priced it is
\* "Cash OK | Award: No availability | Turo OK".
C7_CompositeStatus ==
    \A i \in Rows :
        outcome[i] = "finalized" =>
            /\ \E c \in CashTokens, a \in AwardTokens, t \in TuroTokens :
                  /\ df[i]["Pricing Status"] \in {Str(Composite(c, a, t)), Str("No updates")}
                  /\ c = "Cash OK" <=> df[i]["Cash Total Cost"] = Num(240)
                  /\ t = "Turo OK" <=> df[i]["Turo Lowest Price"] = Num(30)
            /\ (/\ df[i]["Cash Price Outbound"] = Num(120)
                /\ df[i]["Cash Price Return"] = Num(120)
                /\ df[i]["Cash Total Cost"] = Num(240)
                /\ df[i]["Award Miles Outbound Main"] = NoReward
                /\ df[i]["Award Miles Outbound First"] = NoReward
                /\ df[i]["Award Miles Return Main"] = NoReward
                /\ df[i]["Award Miles Return First"] = NoReward
                /\ df[i]["Turo Lowest Price"] = Num(30))
               => df[i]["Pricing Status"] = Str("Cash OK | Award: No availability | Turo OK")

\* cash priced on both legs, award unavailable on both, car priced
C7_Witness ==
    /\ outcome[1] = "finalized"
    /\ called[1] = {"cash_out", "cash_ret", "award_out", "award_ret", "turo"}
    /\ df[1]["Cash Total Cost"] = Num(240)
    /\ df[1]["Award Miles Outbound Main"] = NoReward
    /\ df[1]["Award Miles Return Main"] = NoReward
    /\ df[1]["Turo Lowest Price"] = Num(30)
    /\ df[1]["Pricing Status"] = Str("Cash OK | Award: No availability | Turo OK")

\* the calls that belong to the sources switched off for the run
SkippedCalls ==
    (IF args.skip_cash THEN {"cash_out", "cash_ret"} ELSE {})
    \cup (IF args.skip_awards THEN {"award_out", "award_ret"} ELSE {})
    \cup (IF args.skip_turo \/ ~args.apify_token THEN {"turo"} ELSE {})

SkippedCashTokens == IF args.skip_cash THEN {"Skipped", "Cash Skipped"} ELSE CashTokens
SkippedAwardTokens == IF args.skip_awards THEN {"Skipped", "Award Skipped"} ELSE AwardTokens
SkippedTuroTokens ==
    IF args.skip_turo \/ ~args.apify_token THEN {"Skipped", "Turo Skipped"} ELSE TuroTokens

C9_FailureNotFatal ==
    /\ \A i \in Rows :
          outcome[i] \in {"update_raised", "save_raised"} =>
              /\ df[i]["Pricing Status"] \in {Str("Error: UnicodeEncodeError"),
                                              Str("Error: PermissionError")}
              /\ idx > i
    /\ pc = "crashed" =>
          \/ \A i \in Rows : outcome[i] = "pending"
          \/ \A i \in Rows : Ended(i)
    /\ pc \in {"final_save", "done"} => \A i \in Rows : Ended(i)

\* the update of the first destination raised, the second destination was
\* processed and the run ended normally
C9_Witness ==
    /\ pc = "done"
    /\ outcome[1] = "update_raised"
    /\ outcome[2] = "finalized"
    /\ df[1]["Pricing Status"] = Str("Error: UnicodeEncodeError")

\* C10: no adapter call ends with an exception, and a call whose external
\* request failed returns None.
C10_AdaptersCatch ==
    /\ last_call.exc = "none"
    /\ last_call.fault # "none" => last_call.ret = None
    /\ \A i \in Rows : outcome[i] = "update_raised" => called[i] = {}

\* the award scrape raised and the adapter returned None
C10_Witness ==
    /\ last_call.adapter = "award"
    /\ last_call.fault = "webdriver_error"
    /\ last_call.ret = None
    /\ last_call.exc = "none"

\* the token request of the fare search was made and failed
AuthFailed ==
    ~args.skip_cash /\ ~amadeus_token /\ pc \notin {"idle", "auth", "interrupted"}

\* C11: a failed token request of the fare search disables only the cash
\* source: the run does not end there, and when it is done every
\* destination has had its requested award and car-rental calls.
C11_AuthFailureDisablesOnlyCash ==
    AuthFailed =>
        /\ pc # "crashed"
        /\ pc = "done" =>
              \A i \in Rows :
                  outcome[i] = "finalized" =>
                      (RequestedCalls \ {"cash_out", "cash_ret"}) \subseteq called[i]

(***************************************************************************)
(* Specification of the car-rental adapter: any bounded job                *)
(***************************************************************************)
\* the longest run of answers drawn freely after the lead of a job
MaxPolls == 2

\* a status request answered with a status code other than 200
Non200 == [kind |-> "http_error", status |-> ""]
PollTimeout == [kind |-> "timeout", status |-> ""]

JobStatuses == {"READY", "RUNNING", "SUCCEEDED", "FAILED", "ABORTED", "TIMED-OUT"}
TuroResponses == {Poll(st) : st \in JobStatuses} \cup {Non200, PollTimeout}

\* answers that leave the job unsettled
Background == {Poll("RUNNING"), Non200}

\* how many background answers come first: none, or up to the ceiling
LeadLengths == {0, 28, 29, 30}

Unpriced == Vehicle(None, "2019 Honda Fit")
Priced(amount) == Vehicle(Dict([amount |-> Num(amount)]), "2020 Toyota Corolla")
\* a vehicle whose price dict carries no amount
NoAmount == Vehicle(Dict([amount |-> None]), "2018 Ford Focus")
TuroVehicles == {Priced(30), Priced(45), Priced(0), Unpriced, NoAmount}

TuroDatasets ==
    {[kind |-> "http_error", vehicles |-> <<>>], [kind |-> "timeout", vehicles |-> <<>>]}
    \cup {[kind |-> "ok", vehicles |-> v] : v \in SeqsUpTo(TuroVehicles, 2)}

TuroJobs ==
    { TuroJob(start, [i \in 1..lead |-> bg] \o tail, bg, dataset) :
          start \in {"created"}, lead \in LeadLengths, bg \in Background,
          tail \in SeqsUpTo(TuroResponses, MaxPolls), dataset \in TuroDatasets }
    \cup {TuroJob(start, <<>>, Poll("RUNNING"), NoDataset) : start \in {"http_error", "timeout"}}

TuroInit ==
    /\ RankIdle
    /\ NormalizeIdle
    /\ MatchIdle
    /\ TripsIdle
    /\ RunIdle
    /\ AwardIdle
    /\ tu_pc = "start"
    /\ tu_job \in TuroJobs
    /\ tu_result = <<>>

CallTuro ==
    /\ tu_pc = "start"
    /\ tu_result' = fetch_turo_pricing(TRUE, tu_job)
    /\ tu_pc' = "done"
    /\ UNCHANGED <<tu_job, mvars, tvars, ovars, avars, rvars, nvars>>

TuroNext == CallTuro

SpecTuro == TuroInit /\ [][TuroNext]_vars

(***************************************************************************)
(* Properties of the car-rental adapter                                    *)
(***************************************************************************)
\* the polls the ceiling allows: 90 seconds in steps of 3
CeilingPolls == 1..30

\* answers that end the polling: a terminal status, or a request that raised
Settles(response) ==
    \/ response.kind = "timeout"
    \/ response.kind = "ok"
       /\ response.status \in {"SUCCEEDED", "FAILED", "ABORTED", "TIMED-OUT"}

\* the polls, within the ceiling, whose answer ends the polling
SettlingPolls == {n \in CeilingPolls : Settles(PollResponse(tu_job, n))}
FirstSettling == CHOOSE n \in SettlingPolls : \A k \in SettlingPolls : n <= k

\* C12: a fetch makes at most 30 status polls and returns; when no poll
\* within the ceiling reported a terminal status (the job kept running, or
\* every status request came back non-200) it has made exactly 30 polls and
\* returns None.
C12_PollingBounded ==
    tu_pc = "done" =>
        /\ tu_result.polls <= 30
        /\ tu_result.polls * PollStep <= MaxWait
        /\ tu_result.exc = "none"
        /\ (tu_job.start = "created" /\ SettlingPolls = {}) =>
              /\ tu_result.polls = 30
              /\ tu_result.fetches = 0
              /\ tu_result.ret = None

\* every status request came back non-200 and the job would have succeeded
\* at the poll after the ceiling
C12_Witness ==
    /\ tu_pc = "done"
    /\ \A n \in CeilingPolls : PollResponse(tu_job, n) = Non200
    /\ PollResponse(tu_job, 31) = Poll("SUCCEEDED")
    /\ tu_job.dataset.kind = "ok" /\ tu_job.dataset.vehicles = <<Priced(30)>>
    /\ tu_result.polls = 30
    /\ tu_result.ret = None

\* C13: when the first terminal status polled is FAILED, ABORTED or
\* TIMED-OUT the adapter returns None at that poll, without another poll
\* and without fetching the dataset; a job that reaches no terminal status
\* within the ceiling yields None as well.
C13_TerminalFailureStops ==
    tu_pc = "done" /\ tu_job.start = "created" =>
        IF SettlingPolls = {}
        THEN tu_result.ret = None /\ tu_result.fetches = 0
        ELSE LET response == PollResponse(tu_job, FirstSettling)
             IN  (response.kind = "ok"
                  /\ response.status \in {"FAILED", "ABORTED", "TIMED-OUT"}) =>
                     /\ tu_result.ret = None
                     /\ tu_result.polls = FirstSettling
                     /\ tu_result.fetches = 0

\* the job was aborted at the last poll of the ceiling; a further poll
\* would have seen it succeed with a priced vehicle
C13_Witness ==
    /\ tu_pc = "done"
    /\ \A n \in 1..29 : PollResponse(tu_job, n) = Poll("RUNNING")
    /\ PollResponse(tu_job, 30) = Poll("ABORTED")
    /\ PollResponse(tu_job, 31) = Poll("SUCCEEDED")
    /\ tu_job.dataset.kind = "ok" /\ tu_job.dataset.vehicles = <<Priced(30)>>
    /\ tu_result.ret = None
    /\ tu_result.polls = 30
    /\ tu_result.fetches = 0

\* the daily prices of the vehicles of the dataset
DatasetAmounts ==
    {tu_job.dataset.vehicles[n].avgDailyPrice.d.amount.n :
        n \in 1..Len(tu_job.dataset.vehicles)}

\* C14: on a job that succeeded and whose dataset holds priced vehicles the
\* price returned is the minimum daily price over the vehicles of the
\* dataset, in whatever order the service delivers them.
C14_LowestPriceReturned ==
    (/\ tu_pc = "done"
     /\ tu_job.start = "created"
     /\ SettlingPolls # {}
     /\ PollResponse(tu_job, FirstSettling) = Poll("SUCCEEDED")
     /\ tu_job.dataset.kind = "ok"
     /\ tu_job.dataset.vehicles # <<>>
     /\ \A n \in 1..Len(tu_job.dataset.vehicles) :
            /\ tu_job.dataset.vehicles[n].avgDailyPrice # None
            /\ Truthy(tu_job.dataset.vehicles[n].avgDailyPrice.d.amount)) =>
        /\ tu_result.ret # None
        /\ \A amount \in DatasetAmounts : tu_result.ret.d.price.n <= amount

(***************************************************************************)
(* Properties of the award adapter                                         *)
(***************************************************************************)
\* a page that was fetched and lists no flight
EmptyPage == [kind |-> "ok", flights |-> <<>>]

\* C15: an award call whose fetch or scrape failed gives the orchestrator
\* a result other than the one of a page fetched without a matching
\* flight, and the cells written for the leg are not those of "no
\* availability".
C15_FailureDistinctFromNoAvailability ==
    (last_call.adapter = "award" /\ last_call.fault # "none") =>
        /\ last_call.ret # fetch_award_pricing(EmptyPage, <<6, 0>>).ret
        /\ (last_call.leg = "out" /\ pc = "award_ret") =>
              /\ updates["Award Miles Outbound Main"] # NoReward
              /\ updates["Award Miles Outbound First"] # NoReward

(***************************************************************************)
(* Specification of the award matcher: any bounded list of scraped flights *)
(***************************************************************************)
AwardTargets == {<<6, 0>>, <<6, 1>>}
AwardDepartures == {<<5, 30>>, <<5, 50>>, <<6, 10>>, <<6, 30>>, <<6, 31>>}

\* flights as process_flights leaves them
AwardMatchFlights ==
    {[depart_time |-> d, num_stops |-> st, num_miles_main |-> Num(m),
      num_miles_first |-> Num(45)] :
        d \in AwardDepartures, st \in {0, 1}, m \in {20, 30}}

\* processed_flights.sort(key=lambda x: x["depart_time"])
SortedByDeparture(flights) ==
    \A i \in 1..(Len(flights) - 1) :
        ClockMinutes(flights[i].depart_time) <= ClockMinutes(flights[i + 1].depart_time)

AwardMatchInit ==
    /\ RankIdle
    /\ NormalizeIdle
    /\ MatchIdle
    /\ TripsIdle
    /\ RunIdle
    /\ TuroIdle
    /\ a_pc = "start"
    /\ a_flights \in {f \in SeqsUpTo(AwardMatchFlights, MaxOffers) : SortedByDeparture(f)}
    /\ a_target \in AwardTargets
    /\ a_result = None

CallAwardMatcher ==
    /\ a_pc = "start"
    /\ a_result' = find_matching_flight(a_flights, a_target, AwardWindow)
    /\ a_pc' = "done"
    /\ UNCHANGED <<a_flights, a_target, mvars, tvars, ovars, uvars, rvars, nvars>>

AwardMatchNext == CallAwardMatcher

SpecAward == AwardMatchInit /\ [][AwardMatchNext]_vars

\* the scraped flights as offers of the nearest-time matcher: one segment
\* more than stops, the main-cabin miles as the cost
AsOffers == [i \in 1..Len(a_flights) |->
                [dep |-> a_flights[i].depart_time,
                 segments |-> a_flights[i].num_stops + 1,
                 price |-> a_flights[i].num_miles_main.n]]

\* what the nearest-time matcher selects among them with the award window
MatcherChoice == find_flight_by_time_locals(AsOffers, a_target, AwardWindow)

\* C16: the flight the award adapter selects is the choice of the
\* nearest-time matcher with a window of 30 minutes: none when the matcher
\* selects none, and otherwise a flight with the matcher's time difference,
\* directness and cost.
C16_AwardMatcherIsNearestTime ==
    a_pc = "done" =>
        IF MatcherChoice.price = None THEN a_result = None
        ELSE /\ a_result # None
             /\ Abs(ClockMinutes(a_result.d.depart_time) - ClockMinutes(a_target))
                    = MatcherChoice.diff
             /\ (a_result.d.num_stops = 0) = MatcherChoice.is_direct
             /\ a_result.d.num_miles_main = MatcherChoice.price

(***************************************************************************)
(* Properties of the filters and of the pairing step                       *)
(***************************************************************************)
\* the minutes of an itinerary duration "PT<h>H<m>M"
DurationOf(offer) == offer.duration[1] * 60 + offer.duration[2]

\* the offers with departure hour below the cutoff and duration within the
\* maximum, read off the offers themselves
EarlyOffers ==
    SelectSeq(t_outbound,
              LAMBDA o : o.dep \div 60 < DepartBy /\ DurationOf(o) <= MaxDuration)

\* the offers with arrival hour in [ReturnAfter, ReturnBy) and duration
\* within the maximum
EveningOffers ==
    SelectSeq(t_return,
              LAMBDA o : /\ ReturnAfter <= o.arr \div 60
                         /\ o.arr \div 60 < ReturnBy
                         /\ DurationOf(o) <= MaxDuration)

\* the pairs of filtered flights with enough time on the ground
ValidPairs ==
    {p \in (1..Len(EarlyOffers)) \X (1..Len(EveningOffers)) :
        EveningOffers[p[2]].dep - EarlyOffers[p[1]].arr >= t_min_ground}

\* outbound-major, return-minor
PairBefore(p, q) == p[1] < q[1] \/ (p[1] = q[1] /\ p[2] < q[2])

\* C17: the trips are exactly the pairs of a filtered outbound and a
\* filtered return flight with ground time at least the minimum, one trip
\* per pair, in outbound-major and return-minor order, each with the total
\* flight cost equal to the sum of the prices of its two legs.
C17_FullCrossProduct ==
    t_pc = "done" =>
        /\ {trips[k].pair : k \in 1..Len(trips)} = ValidPairs
        /\ Len(trips) = Cardinality(ValidPairs)
        /\ \A k \in 1..(Len(trips) - 1) : PairBefore(trips[k].pair, trips[k + 1].pair)
        /\ \A k \in 1..Len(trips) :
              LET out == EarlyOffers[trips[k].pair[1]]
                  ret == EveningOffers[trips[k].pair[2]]
              IN  /\ trips[k].OutboundPrice = out.price
                  /\ trips[k].ReturnPrice = ret.price
                  /\ trips[k].TotalFlightCost = out.price + ret.price
                  /\ trips[k].DepartOrigin = <<out.dep \div 60, out.dep % 60>>
                  /\ trips[k].DepartDestination = <<ret.dep \div 60, ret.dep % 60>>

\* two outbound and two return flights pass the filters and three of the
\* four pairs have enough ground time: three trips, in order
C17_Witness ==
    /\ t_pc = "done"
    /\ Len(EarlyOffers) = 2 /\ Len(EveningOffers) = 2
    /\ Len(trips) = 3
    /\ trips[1].pair = <<1, 1>> /\ trips[2].pair = <<1, 2>> /\ trips[3].pair = <<2, 2>>
    /\ trips[3].TotalFlightCost = EarlyOffers[2].price + EveningOffers[2].price

MalformedOffers == [dep : {<<6, 10>>}, segments : {0}, price : {90}]

CashInit ==
    /\ RankIdle
    /\ NormalizeIdle
    /\ TripsIdle
    /\ RunIdle
    /\ TuroIdle
    /\ AwardIdle
    /\ m_pc = "start"
    /\ m_offers \in SeqsUpTo(MatchOffers \cup MalformedOffers, MaxOffers)
    /\ m_target \in MatchTargets
    /\ m_window = DefaultWindow
    /\ m_best = NoMatch
    /\ m_result = None

CallCashAdapter ==
    /\ m_pc = "start"
    /\ m_result' = fetch_cash_pricing([kind |-> "ok", offers |-> m_offers], m_target).ret
    /\ m_pc' = "done"
    /\ UNCHANGED <<m_offers, m_target, m_window, m_best, tvars, ovars, uvars, avars, rvars, nvars>>

CashNext == CallCashAdapter

SpecCash == CashInit /\ [][CashNext]_vars

\* the offers of the response that can be normalized
WellFormed == SelectSeq(m_offers, LAMBDA o : ~MalformedOffer(o))

\* C20: an offer that cannot be normalized is skipped and the fetch goes
\* on: the price returned for the leg is the one the matcher finds among
\* the remaining offers of the response.
C20_MalformedOfferSkipped ==
    m_pc = "done" => m_result = find_flight_by_time(WellFormed, m_target, m_window)

(***************************************************************************)
(* Properties of the pricing run: interrupts, order, frame                 *)
(***************************************************************************)
\* the file holds every row of the dataframe, or was never written
WholeFile == output_file = <<>> \/ DOMAIN output_file = DOMAIN df

\* C21: whenever an operator interrupt ends the run the output file is
\* whole, and an interrupt that arrives while the checkpoint of the current
\* destination is due leaves that checkpoint written.
C21_InterruptKeepsCheckpointWhole ==
    pc = "interrupted" =>
        /\ WholeFile
        /\ (idx \in Rows /\ outcome[idx] = "finalized") => output_file = df

\* the destinations before idx have ended, those after it are untouched,
\* and the one at idx is the only one being processed
InRowOrder ==
    /\ \A i \in Rows :
          /\ i < idx => Ended(i)
          /\ i > idx => outcome[i] = "pending" /\ called[i] = {} /\ df[i] = InputRow(i)
    /\ pc \in {"entry", "cash_out", "cash_ret", "award_out", "award_ret", "turo",
               "finalize"} => idx \in Rows /\ outcome[idx] = "pending"
    /\ pc \in {"save", "sleep"} => idx \in Rows /\ outcome[idx] = "finalized"
    /\ pc \in {"final_save", "done"} => idx = NumDest + 1

\* a step goes to the next row at most, leaves the destinations before idx
\* as they were, and makes at most one adapter call, for the row at idx
OneRowStep ==
    /\ idx' \in {idx, idx + 1}
    /\ idx' = idx + 1 => outcome'[idx] # "pending"
    /\ \A i \in Rows :
          /\ i < idx => outcome'[i] = outcome[i] /\ called'[i] = called[i] /\ df'[i] = df[i]
          /\ called'[i] # called[i] =>
                /\ i = idx
                /\ called[i] \subseteq called'[i]
                /\ Cardinality(called'[i] \ called[i]) = 1

\* C22: destinations are processed one at a time in row order: the
\* destination after idx is not started before the one at idx has ended,
\* no destination is processed twice, and every step makes at most one
\* adapter call (so at most one award call is under way).
C22_OneAtATimeInOrder == [](pc # "idle" => InRowOrder) /\ [][pc # "idle" => OneRowStep]_vars

\* the second destination is in its award stage after the first one ended
C22_Witness ==
    /\ pc = "award_ret"
    /\ idx = 2
    /\ outcome[1] = "finalized"
    /\ called[2] = {"cash_out", "cash_ret", "award_out"}

(***************************************************************************)
(* find_same_day_trips.py: the ranking of main (lines 431-442)             *)
(***************************************************************************)
\* the longest list of trips ranked
MaxTrips == 3

\* destination codes in the order of string comparison
SortedCodes == <<"ATL", "BOS", "MIA">>
CodeOrder(code) == CHOOSE i \in 1..Len(SortedCodes) : SortedCodes[i] = code

TripCosts == {200, 250}

\* a trip as far as the ranking reads it
RankedTrips == [Destination : {SortedCodes[i] : i \in 1..Len(SortedCodes)},
                TotalFlightCost : TripCosts]

\* all_trips.extend(trips), destination after destination: the trips of one
\* destination are next to each other
GroupedByDestination(list) ==
    \A i, j, k \in 1..Len(list) :
        (i < j /\ j < k /\ list[i].Destination = list[k].Destination)
            => list[j].Destination = list[i].Destination

\* pd.DataFrame(all_trips): the rows with their index
DataFrame(list) ==
    [k \in 1..Len(list) |->
        [index |-> k, Destination |-> list[k].Destination,
         TotalFlightCost |-> list[k].TotalFlightCost]]

\* the order of the two sort keys
RowBefore(a, b) ==
    \/ CodeOrder(a.Destination) < CodeOrder(b.Destination)
    \/ /\ a.Destination = b.Destination
       /\ a.TotalFlightCost < b.TotalFlightCost

\* a row put in front of the rows that equal it on both keys
RECURSIVE InsertBeforeEqual(_, _)
InsertBeforeEqual(row, sorted) ==
    IF sorted = <<>> THEN <<row>>
    ELSE IF ~RowBefore(Head(sorted), row) THEN <<row>> \o sorted
    ELSE <<Head(sorted)>> \o InsertBeforeEqual(row, Tail(sorted))

\* a row put behind the rows that equal it on both keys: sorting on more
\* than one column keeps the order of equal rows
RECURSIVE InsertRow(_, _)
InsertRow(row, sorted) ==
    IF sorted = <<>> THEN <<row>>
    ELSE IF RowBefore(row, Head(sorted)) THEN <<row>> \o sorted
    ELSE <<Head(sorted)>> \o InsertRow(row, Tail(sorted))

RECURSIVE SortLoop(_, _, _)
SortLoop(frame, k, sorted) ==
    IF k > Len(frame) THEN sorted
    ELSE SortLoop(frame, k + 1, InsertRow(frame[k], sorted))

\* df.sort_values(['Destination', 'Total Flight Cost'])
sort_values(frame) == SortLoop(frame, 1, <<>>)

\* groupby('Destination')['Total Flight Cost'].rank(method='first'): within
\* the destination, the rows of lower cost and the rows of equal cost that
\* stand earlier in the frame come first
rank_first(frame, k) ==
    1 + Cardinality({j \in 1..Len(frame) :
                        /\ frame[j].Destination = frame[k].Destination
                        /\ \/ frame[j].TotalFlightCost < frame[k].TotalFlightCost
                           \/ /\ frame[j].TotalFlightCost = frame[k].TotalFlightCost
                              /\ j < k})

\* lines 432-442
ranked(list) ==
    LET frame == sort_values(DataFrame(list))
    IN  [k \in 1..Len(frame) |->
            [index |-> frame[k].index,
             Destination |-> frame[k].Destination,
             TotalFlightCost |-> frame[k].TotalFlightCost,
             RankForDestination |-> rank_first(frame, k),
             BestOption |-> rank_first(frame, k) = 1]]

RankInit ==
    /\ MatchIdle
    /\ TripsIdle
    /\ RunIdle
    /\ TuroIdle
    /\ AwardIdle
    /\ NormalizeIdle
    /\ r_pc = "start"
    /\ all_trips \in {l \in SeqsUpTo(RankedTrips, MaxTrips) : GroupedByDestination(l)}
    /\ r_df = <<>>

RankTrips ==
    /\ r_pc = "start"
    /\ r_df' = IF Len(all_trips) > 0 THEN ranked(all_trips) ELSE <<>>
    /\ r_pc' = "done"
    /\ UNCHANGED <<all_trips, mvars, tvars, ovars, uvars, avars, nvars>>

RankNext == RankTrips

SpecRank == RankInit /\ [][RankNext]_vars

(***************************************************************************)
(* Properties of the ranking                                               *)
(***************************************************************************)
RowsOf(code) == {k \in 1..Len(r_df) : r_df[k].Destination = code}

\* C23: the ranked frame holds every trip once, ordered by destination
\* code and then by ascending total cost; within a destination the ranks
\* are 1..n in frame order, the best-option flag is set exactly on rank 1,
\* so every destination with a trip has exactly one best trip, of minimum
\* cost, and of two trips of equal cost the one emitted first ranks first.
C23_RankingPerDestination ==
    r_pc = "done" =>
        /\ Len(r_df) = Len(all_trips)
        /\ {r_df[k].index : k \in 1..Len(r_df)} = 1..Len(all_trips)
        /\ \A k \in 1..Len(r_df) :
              /\ r_df[k].Destination = all_trips[r_df[k].index].Destination
              /\ r_df[k].TotalFlightCost = all_trips[r_df[k].index].TotalFlightCost
              /\ r_df[k].BestOption <=> r_df[k].RankForDestination = 1
        /\ \A k \in 1..(Len(r_df) - 1) :
              \/ CodeOrder(r_df[k].Destination) < CodeOrder(r_df[k + 1].Destination)
              \/ /\ r_df[k].Destination = r_df[k + 1].Destination
                 /\ r_df[k].TotalFlightCost <= r_df[k + 1].TotalFlightCost
        /\ \A i \in 1..Len(all_trips) :
              LET group == RowsOf(all_trips[i].Destination)
                  best == {k \in group : r_df[k].BestOption}
              IN  /\ Cardinality(best) = 1
                  /\ {r_df[k].RankForDestination : k \in group} = 1..Cardinality(group)
                  /\ \A b \in best, k \in group :
                        r_df[b].TotalFlightCost <= r_df[k].TotalFlightCost
        /\ \A j, k \in 1..Len(r_df) :
              (/\ r_df[j].Destination = r_df[k].Destination
               /\ r_df[j].TotalFlightCost = r_df[k].TotalFlightCost
               /\ r_df[j].index < r_df[k].index)
                  => r_df[j].RankForDestination < r_df[k].RankForDestination

\* three trips to one destination emitted with costs 250, 200, 200: the
\* second is the best option, the third ranks second and the first third
C23_Witness ==
    /\ r_pc = "done"
    /\ Len(all_trips) = 3
    /\ \A i \in 1..3 : all_trips[i].Destination = "BOS"
    /\ all_trips[1].TotalFlightCost = 250
    /\ all_trips[2].TotalFlightCost = 200 /\ all_trips[3].TotalFlightCost = 200
    /\ r_df[1].index = 2 /\ r_df[1].BestOption /\ r_df[1].RankForDestination = 1
    /\ r_df[2].index = 3 /\ ~r_df[2].BestOption /\ r_df[2].RankForDestination = 2
    /\ r_df[3].index = 1 /\ r_df[3].RankForDestination = 3

(***************************************************************************)
(* Normalizing labels: the city label of fetch_turo_pricing                *)
(* (update_all_pricing.py, lines 237-242) and the cabin labels and mile    *)
(* costs of process_flights (search_aa_award_flights.py, lines 66-82)      *)
(***************************************************************************)
\* the longest city label, in characters
MaxLabel == 5
\* the longest cabin label, in words
MaxWords == 2
\* the longest mile cost, in characters
MaxMiles == 3

Blank == " "
CityChars == {"A", "t", Blank}

\* str.lower, character by character
LowerChar(c) == IF c = "A" THEN "a" ELSE c
lower(text) == [k \in 1..Len(text) |-> LowerChar(text[k])]

\* str.split(): the runs of characters between blanks, empty runs dropped
RECURSIVE SplitLoop(_, _, _, _)
SplitLoop(text, k, part, parts) ==
    LET closed == IF part = <<>> THEN parts ELSE Append(parts, part)
    IN  IF k > Len(text) THEN closed
        ELSE IF text[k] = Blank THEN SplitLoop(text, k + 1, <<>>, closed)
        ELSE SplitLoop(text, k + 1, Append(part, text[k]), parts)

split(text) == SplitLoop(text, 1, <<>>, <<>>)

\* the first token taken instead of the second
search_city_first_part(city_name) ==
    LET city_parts == split(city_name)
    IN  IF Len(city_parts) > 1 THEN lower(city_parts[1]) ELSE lower(city_name)

\* update_all_pricing.py, lines 238-242
search_city(city_name) ==
    LET city_parts == split(city_name)
    IN  IF Len(city_parts) > 1 THEN lower(city_parts[2]) ELSE lower(city_name)

\* a cabin label is a sequence of words; the label contains a cabin name
\* when one of its words does
CabinWords == {"Main", "First", "Business", "Premium"}
LowerWord(w) ==
    CASE w = "Main" -> "main"
      [] w = "First" -> "first"
      [] w = "Business" -> "business"
      [] w = "Premium" -> "premium"
      [] OTHER -> w
lower_label(label) == [k \in 1..Len(label) |-> LowerWord(label[k])]
In(word, label) == \E k \in 1..Len(label) : label[k] = word

\* first looked for before main
canonical_cabin_first_priority(label) ==
    LET cabin == lower_label(label)
    IN  IF In("first", cabin) THEN <<"first">>
        ELSE IF In("business", cabin) THEN <<"business">>
        ELSE IF In("main", cabin) THEN <<"main">>
        ELSE cabin

\* search_aa_award_flights.py, lines 69-75
canonical_cabin(label) ==
    LET cabin == lower_label(label)
    IN  IF In("main", cabin) THEN <<"main">>
        ELSE IF In("first", cabin) THEN <<"first">>
        ELSE IF In("business", cabin) THEN <<"business">>
        ELSE cabin

MilesChars == {"2", "0", "K"}
DigitValue(c) == IF c = "2" THEN 2 ELSE 0

\* miles.replace("K", "")
RECURSIVE replace_K(_)
replace_K(text) ==
    IF text = <<>> THEN <<>>
    ELSE IF Head(text) = "K" THEN replace_K(Tail(text))
    ELSE <<Head(text)>> \o replace_K(Tail(text))

\* the number a string of digits writes
RECURSIVE DecimalValue(_)
DecimalValue(digits) ==
    IF digits = <<>> THEN 0
    ELSE 10 * DecimalValue(SubSeq(digits, 1, Len(digits) - 1)) + DigitValue(digits[Len(digits)])

\* float(): no number is written by the empty string
float(text) == IF text = <<>> THEN Raise("ValueError") ELSE Return(Num(DecimalValue(text)))

\* the number multiplied by a thousand
miles_value_expanded(miles) ==
    LET call == float(replace_K(miles))
    IN  IF call.exc # "none" THEN call ELSE Return(Num(1000 * call.ret.n))

\* search_aa_award_flights.py, line 77
miles_value(miles) == float(replace_K(miles))

NormalizeInit ==
    /\ MatchIdle
    /\ TripsIdle
    /\ RunIdle
    /\ TuroIdle
    /\ AwardIdle
    /\ RankIdle
    /\ n_pc = "start"
    /\ n_kind \in {"city", "cabin", "miles"}
    /\ n_input \in CASE n_kind = "city" -> SeqsUpTo(CityChars, MaxLabel)
                     [] n_kind = "cabin" -> SeqsUpTo(CabinWords, MaxWords)
                     [] OTHER -> SeqsUpTo(MilesChars, MaxMiles) \ {<<>>}
    /\ n_output = <<>>

NormalizeCity ==
    /\ n_pc = "start"
    /\ n_kind = "city"
    /\ n_output' = search_city(n_input)
    /\ n_pc' = "done"
    /\ UNCHANGED <<n_kind, n_input, mvars, tvars, ovars, uvars, avars, rvars>>

NormalizeCabin ==
    /\ n_pc = "start"
    /\ n_kind = "cabin"
    /\ n_output' = canonical_cabin(n_input)
    /\ n_pc' = "done"
    /\ UNCHANGED <<n_kind, n_input, mvars, tvars, ovars, uvars, avars, rvars>>

NormalizeMiles ==
    /\ n_pc = "start"
    /\ n_kind = "miles"
    /\ n_output' = miles_value(n_input)
    /\ n_pc' = "done"
    /\ UNCHANGED <<n_kind, n_input, mvars, tvars, ovars, uvars, avars, rvars>>

NormalizeNext ==
    \/ NormalizeCity
    \/ NormalizeCabin
    \/ NormalizeMiles

SpecNormalize == NormalizeInit /\ [][NormalizeNext]_vars

(***************************************************************************)
(* Properties of the normalizers                                           *)
(***************************************************************************)
\* the places where a token of the label starts, and where that token ends
TokenStarts(text) ==
    {i \in 1..Len(text) : text[i] # Blank /\ (i = 1 \/ text[i - 1] = Blank)}
TokenEnd(text, i) ==
    CHOOSE j \in i..Len(text) :
        /\ \A k \in i..j : text[k] # Blank
        /\ j = Len(text) \/ text[j + 1] = Blank
SecondStart(text) ==
    CHOOSE i \in TokenStarts(text) :
        Cardinality({j \in TokenStarts(text) : j < i}) = 1

\* C24: a city label of two or more tokens is searched by its second
\* token alone, lowercased; a label of one token (or none) is searched
\* whole, lowercased.
C24_CityIsSecondToken ==
    (n_pc = "done" /\ n_kind = "city") =>
        IF Cardinality(TokenStarts(n_input)) >= 2
        THEN LET s == SecondStart(n_input)
                 e == TokenEnd(n_input, s)
             IN  /\ Len(n_output) = e - s + 1
                 /\ \A k \in 1..Len(n_output) : n_output[k] = LowerChar(n_input[s + k - 1])
        ELSE /\ Len(n_output) = Len(n_input)
             /\ \A k \in 1..Len(n_output) : n_output[k] = LowerChar(n_input[k])

\* the label "A At " has two tokens and is searched as "at"
C24_Witness ==
    /\ n_pc = "done"
    /\ n_kind = "city"
    /\ n_input = <<"A", Blank, "A", "t", Blank>>
    /\ n_output = <<"a", "t">>

\* C25 as claimed: a cabin label maps to first when it contains "first",
\* else to business when it contains "business", else to main when it
\* contains "main", and a label that contains none of the three is kept as
\* written.
C25_CabinPriorityFirst ==
    (n_pc = "done" /\ n_kind = "cabin") =>
        n_output = IF In("first", lower_label(n_input)) THEN <<"first">>
                   ELSE IF In("business", lower_label(n_input)) THEN <<"business">>
                   ELSE IF In("main", lower_label(n_input)) THEN <<"main">>
                   ELSE n_input

\* C25: a cabin label is lowercased and maps to main when it contains
\* "main", else to first when it contains "first", else to business when it
\* contains "business"; a label that contains none of the three is kept,
\* lowercased.
C25_CabinMainFirstBusiness ==
    (n_pc = "done" /\ n_kind = "cabin") =>
        LET has(word) == \E k \in 1..Len(n_input) : LowerWord(n_input[k]) = word
        IN  /\ has("main") => n_output = <<"main">>
            /\ (~has("main") /\ has("first")) => n_output = <<"first">>
            /\ (~has("main") /\ ~has("first") /\ has("business")) => n_output = <<"business">>
            /\ (~has("main") /\ ~has("first") /\ ~has("business")) =>
                   /\ Len(n_output) = Len(n_input)
                   /\ \A k \in 1..Len(n_input) : n_output[k] = LowerWord(n_input[k])

\* "Main First" maps to main
C25_Witness ==
    /\ n_pc = "done"
    /\ n_kind = "cabin"
    /\ n_input = <<"Main", "First">>
    /\ n_output = <<"main">>

\* the text of a mile cost in thousands: digits followed by one K
ThousandsText(text) ==
    /\ Len(text) >= 2
    /\ text[Len(text)] = "K"
    /\ \A k \in 1..(Len(text) - 1) : text[k] # "K"
WrittenNumber(text) == DecimalValue(SubSeq(text, 1, Len(text) - 1))

\* C26 as claimed: a mile cost written "<number>K" is normalized to the
\* number times a thousand ("20K" to 20000).
C26_ExpandedToThousands ==
    (n_pc = "done" /\ n_kind = "miles" /\ ThousandsText(n_input)) =>
        n_output = Return(Num(1000 * WrittenNumber(n_input)))

\* C26: a mile cost written "<number>K" is normalized to the number
\* itself, the K dropped and the value left in thousands of miles ("20K"
\* to 20).
C26_KDroppedValueInThousands ==
    (n_pc = "done" /\ n_kind = "miles" /\ ThousandsText(n_input)) =>
        n_output = Return(Num(WrittenNumber(n_input)))

\* "20K" is normalized to 20
C26_Witness ==
    /\ n_pc = "done"
    /\ n_kind = "miles"
    /\ n_input = <<"2", "0", "K">>
    /\ n_output = Return(Num(20))

(***************************************************************************)
(* Properties of the cash stage and of the row update                      *)
(***************************************************************************)
\* the leg returned a price: something other than None, and not 0
LegPriced(v) == v # None /\ v # Num(0)

\* C27: when the cash stage of a destination ends, its token is "Cash OK"
\* and a total is put among the updates exactly when both legs returned a
\* price, and the total is the sum of the two; the token is "Cash Partial"
\* when exactly one leg returned a price and "Cash Failed" when neither did,
\* and then no total is put.  A leg whose price is 0 counts as not found.
C27_CashTokenAndTotal ==
    [][(pc = "cash_ret" /\ pc' \notin {"interrupted", "loop"}) =>
          LET out == cash_out
              ret == last_call'.ret
              token == status_parts'[Len(status_parts')]
              total == "Cash Total Cost" \in DOMAIN updates'
          IN  /\ status_parts' = Append(status_parts, token)
              /\ ("Cash Price Outbound" \in DOMAIN updates') <=> LegPriced(out)
              /\ ("Cash Price Return" \in DOMAIN updates') <=> LegPriced(ret)
              /\ total <=> (LegPriced(out) /\ LegPriced(ret))
              /\ total <=> token = "Cash OK"
              /\ total => updates'["Cash Total Cost"] = Num(out.n + ret.n)
              /\ (LegPriced(out) # LegPriced(ret)) <=> token = "Cash Partial"
              /\ (~LegPriced(out) /\ ~LegPriced(ret)) <=> token = "Cash Failed"
       ]_vars

\* the cash stage has just ended with both legs priced at 120: the total
\* 240 is among the updates and the token is "Cash OK"
C27_Witness ==
    /\ pc \in {"award_out", "turo", "finalize"}
    /\ last_call.adapter = "cash"
    /\ last_call.leg = "ret"
    /\ last_call.ret = Num(120)
    /\ status_parts = <<"Cash OK">>
    /\ updates["Cash Price Outbound"] = Num(120)
    /\ updates["Cash Total Cost"] = Num(240)

CashColumns == {"Cash Price Outbound", "Cash Price Return", "Cash Total Cost"}
AwardColumns ==
    {"Award Miles Outbound Main", "Award Miles Outbound First",
     "Award Miles Return Main", "Award Miles Return First"}
TuroColumns == {"Turo Lowest Price", "Turo Vehicle", "Turo URL"}
MetadataColumns == {"Last Updated", "Pricing Date", "Pricing Status"}

\* the columns of the sources that the flags of the run let be attempted
AttemptedColumns ==
    (IF ~args.skip_cash THEN CashColumns ELSE {})
    \cup (IF ~args.skip_awards THEN AwardColumns ELSE {})
    \cup (IF ~args.skip_turo /\ args.apify_token THEN TuroColumns ELSE {})

\* the columns a stage may add to the updates, given what its call returned
StageColumns ==
    CASE pc = "cash_out" ->
            IF LegPriced(last_call'.ret) THEN {"Cash Price Outbound"} ELSE {}
      [] pc = "cash_ret" ->
            IF ~LegPriced(last_call'.ret) THEN {}
            ELSE IF LegPriced(cash_out) THEN {"Cash Price Return", "Cash Total Cost"}
            ELSE {"Cash Price Return"}
      [] pc = "award_out" -> {"Award Miles Outbound Main", "Award Miles Outbound First"}
      [] pc = "award_ret" -> {"Award Miles Return Main", "Award Miles Return First"}
      [] pc = "turo" -> IF last_call'.ret # None THEN TuroColumns ELSE {}
      [] OTHER -> {}

\* a row differs from the input only once its destination has ended, and
\* then only in the metadata and the columns of attempted sources
OnlyAttemptedDiffer ==
    \A i \in Rows : \A c \in DOMAIN df[i] :
        df[i][c] # InputRow(i)[c] =>
            /\ Ended(i)
            /\ c \in MetadataColumns \cup AttemptedColumns

\* one step: the other rows are left alone, row idx changes only in the
\* metadata and in the columns among its updates, and a stage adds to the
\* updates only the columns of what its call returned
RowFrameStep ==
    /\ \A i \in Rows \ {idx} : df'[i] = df[i]
    /\ idx \in Rows =>
          \A c \in DOMAIN df[idx] :
              df'[idx][c] # df[idx][c] =>
                  c \in MetadataColumns \cup (DOMAIN updates \cap AttemptedColumns)
    /\ pc' \notin {"interrupted", "loop", "save"} =>
          /\ (DOMAIN updates') \ (DOMAIN updates) \subseteq StageColumns
          /\ \A c \in DOMAIN updates : c \in DOMAIN updates' /\ updates'[c] = updates[c]

\* C28: processing destination idx changes no cell of another row, and in
\* row idx only the metadata and the cells of attempted sources: the cells
\* of a skipped source, and the price cells of a cash leg or of a car
\* search that returned nothing, keep the value they had (a stale value is
\* not cleared).
C28_OnlyAttemptedFieldsChange ==
    [](pc # "idle" => OnlyAttemptedDiffer) /\ [][pc # "idle" => RowFrameStep]_vars

\* the first row carried the pricing of an earlier run; its cash search
\* found nothing on either leg, awards and cars were skipped: the row is
\* finalized and its three cash cells still hold the old value
C28_Witness ==
    /\ outcome[1] = "finalized"
    /\ args.skip_awards /\ args.skip_turo
    /\ df[1]["Pricing Status"] = Str("Cash Failed")
    /\ df[1]["Last Updated"] = Str(Now)
    /\ \A c \in CashColumns : df[1][c] = Num(77)
    /\ \A c \in CashColumns \cup AwardColumns \cup TuroColumns :
          df[1][c] = InputRow(1)[c] /\ InputRow(1)[c] # None

(***************************************************************************)
(* Properties of the car-rental adapter after SUCCEEDED                    *)
(***************************************************************************)
\* the dataset was delivered and its first vehicle carries an amount
\* other than zero
FirstVehiclePriced(dataset) ==
    /\ dataset.kind = "ok"
    /\ dataset.vehicles # <<>>
    /\ dataset.vehicles[1].avgDailyPrice # None
    /\ dataset.vehicles[1].avgDailyPrice.d.amount \notin {None, Num(0)}

\* C29: when the first terminal status polled is SUCCEEDED the adapter
\* polls no more and fetches the dataset once; it returns a price, that of
\* the first vehicle, only if the fetch succeeded, the dataset is not empty
\* and its first vehicle carries a non-zero amount, and None in every other
\* case.
C29_AfterSucceeded ==
    (/\ tu_pc = "done"
     /\ tu_job.start = "created"
     /\ SettlingPolls # {}
     /\ PollResponse(tu_job, FirstSettling) = Poll("SUCCEEDED")) =>
        /\ tu_result.polls = FirstSettling
        /\ tu_result.fetches = 1
        /\ tu_result.exc = "none"
        /\ IF FirstVehiclePriced(tu_job.dataset)
           THEN /\ tu_result.ret # None
                /\ tu_result.ret.d.price = tu_job.dataset.vehicles[1].avgDailyPrice.d.amount
           ELSE tu_result.ret = None

\* the job succeeded at the second poll; the first vehicle of the dataset
\* has the price 0 and the second the price 30: None is returned after two
\* polls and one fetch
C29_Witness ==
    /\ tu_pc = "done"
    /\ tu_job.start = "created"
    /\ PollResponse(tu_job, 1) = Poll("RUNNING")
    /\ PollResponse(tu_job, 2) = Poll("SUCCEEDED")
    /\ tu_job.dataset.kind = "ok"
    /\ tu_job.dataset.vehicles = <<Priced(0), Priced(30)>>
    /\ tu_result.ret = None
    /\ tu_result.polls = 2
    /\ tu_result.fetches = 1

(***************************************************************************)
(* Properties of the error status and the output file                      *)
(***************************************************************************)
ErrorStatuses == {Str("Error: UnicodeEncodeError"), Str("Error: PermissionError")}

\* the file holds the status that row i has in memory
StatusPersisted(file, i) ==
    i \in DOMAIN file /\ file[i]["Pricing Status"] = df[i]["Pricing Status"]

\* one step: an update that raises leaves the error status in memory, the
\* file as it was and goes to the next destination; the status of a raised
\* update gets into the file by a write only, which, when it is not cut
\* short, is the checkpoint of a later finalized destination or the final
\* save and leaves the file equal to the frame
ErrorStatusStep ==
    /\ (idx \in Rows /\ outcome[idx] = "pending" /\ outcome'[idx] = "update_raised") =>
          /\ df'[idx]["Pricing Status"] \in ErrorStatuses
          /\ df[idx]["Pricing Status"] \notin ErrorStatuses
          /\ output_file' = output_file
          /\ ~(/\ idx \in DOMAIN output_file'
                /\ output_file'[idx]["Pricing Status"] = df'[idx]["Pricing Status"])
          /\ idx' = idx + 1
          /\ pc' = "loop"
    /\ \A i \in Rows :
          (/\ outcome[i] = "update_raised"
           /\ ~StatusPersisted(output_file, i)
           /\ StatusPersisted(output_file', i)) =>
              /\ pc \in {"save", "final_save"}
              /\ pc' # "interrupted" =>
                    /\ output_file' = df
                    /\ pc = "save" => (idx > i /\ outcome[idx] = "finalized")

\* C30: an update that raises puts "Error: ..." on its row in memory and
\* its checkpoint is skipped; the error status gets into the output file
\* only with the checkpoint of a later destination that was updated or with
\* the final save, and after a run that ended normally the file equals the
\* frame in memory, row by row.
C30_ErrorPersistedLater ==
    [](pc = "done" => output_file = df) /\ [][pc # "idle" => ErrorStatusStep]_vars

\* the first destination was priced and checkpointed, the update of the
\* second raised: before the final save the frame carries the error and the
\* file still shows the second row as it came in
C30_Witness ==
    /\ pc = "final_save"
    /\ outcome[1] = "finalized"
    /\ outcome[2] = "update_raised"
    /\ df[2]["Pricing Status"] = Str("Error: UnicodeEncodeError")
    /\ DOMAIN output_file = DOMAIN df
    /\ output_file[1] = df[1]
    /\ output_file[2] = InputRow(2)

====
